---- MODULE Spec2Model ----
(***************************************************************************)
(* A model of the ultralight-s3 client (src/index.ts, kept in the source   *)
(* tree as src/unnamed/part_001): argument validation, request building,   *)
(* the transport's status classification, the result mapping of every      *)
(* public operation, the multipart-upload calls and the XML decoder.       *)
(*                                                                         *)
(* Strings are sequences of one-character strings, so that trim,           *)
(* sanitizeETag, unescapeXml and parseInt are computed and not assumed.    *)
(* XML text is a sequence of tokens (open tag, close tag, self-closing     *)
(* tag, text run); the decoder's regular expression is evaluated on it.    *)
(***************************************************************************)
EXTENDS Integers, Sequences, FiniteSets, TLC

\* ------------------------------------------------------------------ bounds

\* Call slots of the client in SpecS3: every slot runs one public call.
MaxCalls == 4

\* Calls that may be in flight (invoked, not yet settled) at the same time.
MaxInFlight == 2

\* ------------------------------------------------------- program constants

MIN_MAX_REQUEST_SIZE_IN_BYTES == 5

\* ------------------------------------------------------------ JS values

Undef == [t |-> "undefined"]
Null == [t |-> "null"]
Str(s) == [t |-> "string", s |-> s]
Num(n) == [t |-> "number", n |-> n, int |-> TRUE]
\* n + 1/2: a number that is no integer
Frac(n) == [t |-> "number", n |-> n, int |-> FALSE]
Bool(b) == [t |-> "boolean", b |-> b]
\* a plain object: m maps property names to values
Obj(m) == [t |-> "object", m |-> m]
Arr(a) == [t |-> "array", a |-> a]
\* a Buffer of len bytes
Buf(len) == [t |-> "buffer", len |-> len]

EmptyMap == [x \in {} |-> Undef]

\* typeof v
TypeOf(v) ==
  CASE v.t \in {"null", "object", "array", "buffer"} -> "object"
    [] OTHER -> v.t

\* JS truthiness of the values the client tests
Truthy(v) ==
  CASE v.t = "undefined" -> FALSE
    [] v.t = "null" -> FALSE
    [] v.t = "string" -> Len(v.s) > 0
    [] v.t = "number" -> ~(v.n = 0 /\ v.int)
    [] v.t = "boolean" -> v.b
    [] OTHER -> TRUE

\* ------------------------------------------------------------- strings

RECURSIVE TrimLeft(_)
TrimLeft(s) == IF Len(s) > 0 /\ Head(s) = " " THEN TrimLeft(Tail(s)) ELSE s

RECURSIVE TrimRight(_)
TrimRight(s) ==
  IF Len(s) > 0 /\ s[Len(s)] = " " THEN TrimRight(SubSeq(s, 1, Len(s) - 1)) ELSE s

\* String.prototype.trim
Trim(s) == TrimRight(TrimLeft(s))

StartsWith(s, p) == Len(s) >= Len(p) /\ SubSeq(s, 1, Len(p)) = p
EndsWith(s, p) == Len(s) >= Len(p) /\ SubSeq(s, Len(s) - Len(p) + 1, Len(s)) = p

\* s.replace(/pat/g, rep) for a literal pattern
RECURSIVE ReplaceAll(_, _, _)
ReplaceAll(s, pat, rep) ==
  IF Len(s) < Len(pat) THEN s
  ELSE IF SubSeq(s, 1, Len(pat)) = pat
       THEN rep \o ReplaceAll(SubSeq(s, Len(pat) + 1, Len(s)), pat, rep)
       ELSE <<Head(s)>> \o ReplaceAll(Tail(s), pat, rep)

QUOT == <<"\"">>
QUOT_ENTITY == <<"&", "q", "u", "o", "t", ";">>
QUOT_NUMERIC == <<"&", "#", "3", "4", ";">>

\* The alternatives of sanitizeETag's regular expression, in its order.
ETagQuotes == <<QUOT, QUOT_ENTITY, QUOT_NUMERIC>>

\* The first alternative that is a prefix (suffix) of s, 0 when there is none.
LeadQuote(s) ==
  IF \E i \in 1..Len(ETagQuotes) : StartsWith(s, ETagQuotes[i])
  THEN CHOOSE i \in 1..Len(ETagQuotes) :
         /\ StartsWith(s, ETagQuotes[i])
         /\ \A j \in 1..(i - 1) : ~StartsWith(s, ETagQuotes[j])
  ELSE 0

TrailQuote(s) ==
  IF \E i \in 1..Len(ETagQuotes) : EndsWith(s, ETagQuotes[i])
  THEN CHOOSE i \in 1..Len(ETagQuotes) :
         /\ EndsWith(s, ETagQuotes[i])
         /\ \A j \in 1..(i - 1) : ~EndsWith(s, ETagQuotes[j])
  ELSE 0

\* The mutant of sanitizeETag that strips at the start only.
sanitizeETagAtStartOnly(etag) ==
  IF LeadQuote(etag) = 0 THEN etag
  ELSE SubSeq(etag, Len(ETagQuotes[LeadQuote(etag)]) + 1, Len(etag))

\* The mutant of sanitizeETag that leaves the value as it came.
sanitizeETagKeepsQuotes(etag) == etag

\* etag.replace(/^("|&quot;|&#34;)|("|&quot;|&#34;)$/g, ''): the match at the
\* start is removed, then the match that ends the rest.
sanitizeETag(etag) ==
  LET lead == LeadQuote(etag)
      rest == IF lead = 0 THEN etag
              ELSE SubSeq(etag, Len(ETagQuotes[lead]) + 1, Len(etag))
      trail == TrailQuote(rest)
  IN IF trail = 0 THEN rest
     ELSE SubSeq(rest, 1, Len(rest) - Len(ETagQuotes[trail]))

\* unescapeXml of _parseXml: five global replacements, in this order
unescapeXml(value) ==
  ReplaceAll(
    ReplaceAll(
      ReplaceAll(
        ReplaceAll(
          ReplaceAll(value, QUOT_ENTITY, QUOT),
          <<"&", "a", "p", "o", "s", ";">>, <<"'">>),
        <<"&", "l", "t", ";">>, <<"<">>),
      <<"&", "g", "t", ";">>, <<">">>),
    <<"&", "a", "m", "p", ";">>, <<"&">>)

Digits == <<"0", "1", "2", "3", "4", "5", "6", "7", "8", "9">>
IsDigit(c) == \E d \in 1..10 : Digits[d] = c
DigitValue(c) == (CHOOSE d \in 1..10 : Digits[d] = c) - 1

RECURSIVE ParseDigits(_, _)
ParseDigits(s, acc) ==
  IF Len(s) = 0 \/ ~IsDigit(Head(s)) THEN acc
  ELSE ParseDigits(Tail(s), acc * 10 + DigitValue(Head(s)))

\* parseInt(s, 10) of an unsigned decimal: NaN without a leading digit
ParseInt(s) ==
  LET t == TrimLeft(s)
  IN IF Len(t) = 0 \/ ~IsDigit(Head(t)) THEN [t |-> "NaN"]
     ELSE Num(ParseDigits(t, 0))

\* String(n) of a small non-negative integer
RECURSIVE NumToString(_)
NumToString(n) ==
  IF n < 10 THEN <<Digits[n + 1]>>
  ELSE NumToString(n \div 10) \o <<Digits[(n % 10) + 1]>>

\* ------------------------------------------------------------------- XML

\* A tag name is the pair the decoder's expression captures: its first
\* character p and the rest r, of at least one character.
Open(p, r) == [k |-> "open", p |-> p, r |-> r, s |-> <<>>]
Close(p, r) == [k |-> "close", p |-> p, r |-> r, s |-> <<>>]
SelfClosing(p, r) == [k |-> "self", p |-> p, r |-> r, s |-> <<>>]
Text(s) == [k |-> "text", p |-> "", r |-> "", s |-> s]

\* <Name>inner</Name>
Element(p, r, inner) == <<Open(p, r)>> \o inner \o <<Close(p, r)>>

\* The characters of a token sequence.
RECURSIVE Render(_)
Render(str) ==
  IF Len(str) = 0 THEN <<>>
  ELSE LET tk == Head(str)
           here == CASE tk.k = "text" -> tk.s
                     [] tk.k = "open" -> <<"<", tk.p, tk.r, ">">>
                     [] tk.k = "close" -> <<"<", "/", tk.p, tk.r, ">">>
                     [] OTHER -> <<"<", tk.p, tk.r, "/", ">">>
       IN here \o Render(Tail(str))

\* The pieces of s between the occurrences of "/".
RECURSIVE Split(_, _)
Split(s, piece) ==
  IF Len(s) = 0 THEN <<piece>>
  ELSE IF Head(s) = "/" THEN <<piece>> \o Split(Tail(s), <<>>)
  ELSE Split(Tail(s), Append(piece, Head(s)))

RECURSIVE Join(_)
Join(pieces) ==
  IF Len(pieces) = 0 THEN <<>>
  ELSE IF Len(pieces) = 1 THEN Head(pieces)
  ELSE Head(pieces) \o <<"/">> \o Join(Tail(pieces))

\* The URL parser on path segments: "." is dropped and ".." drops the
\* segment before it; a final "." or ".." leaves an empty last segment.
RECURSIVE RemoveDotSegments(_, _)
RemoveDotSegments(segments, path) ==
  IF Len(segments) = 0 THEN path
  ELSE LET segment == Head(segments)
           last == Len(segments) = 1
           popped == IF Len(path) = 0 THEN path ELSE SubSeq(path, 1, Len(path) - 1)
       IN RemoveDotSegments(Tail(segments),
            CASE segment = <<".", ".">> -> IF last THEN Append(popped, <<>>) ELSE popped
              [] segment = <<".">> -> IF last THEN Append(path, <<>>) ELSE path
              [] OTHER -> Append(path, segment))

\* new URL(keyPath, endpoint).pathname under an endpoint without a path,
\* without its leading "/".
ResolvePath(keyPath) ==
  LET segments == Split(keyPath, <<>>)
      relative == IF Len(segments) > 1 /\ Head(segments) = <<>> THEN Tail(segments)
                  ELSE segments
  IN Join(RemoveDotSegments(relative, <<>>))

\* new URL(endpoint) of the endpoints of the model: protocol and host.  Any
\* other endpoint stands for its own host under https.
EndpointUrls ==
  [endpoint \in {<<"https://s3.example">>, <<"https://r2.example">>} |->
     [protocol |-> <<"https:">>,
      host |-> IF endpoint = <<"https://s3.example">> THEN <<"s3.example">>
               ELSE <<"r2.example">>]]

ParseEndpoint(endpoint) ==
  IF endpoint \in DOMAIN EndpointUrls THEN EndpointUrls[endpoint]
  ELSE [protocol |-> <<"https:">>, host |-> endpoint]

\* s without the empty pieces it begins with
RECURSIVE SkipEmpty(_)
SkipEmpty(pieces) ==
  IF Len(pieces) > 0 /\ Head(pieces) = <<>> THEN SkipEmpty(Tail(pieces)) ELSE pieces

\* new URL(keyPath, endpoint): a keyPath that begins with "//" is a
\* scheme-relative reference, it names the host itself (the slashes that
\* follow the two are skipped) and only its rest is the path; any other
\* keyPath is a path under the host of the endpoint.  The protocol is the
\* endpoint's in both cases.  (A keyPath of slashes only names no host: new
\* URL throws for it, and the callers of the model pass none.)
ResolveUrl(keyPath, endpoint) ==
  LET base == ParseEndpoint(endpoint)
      segments == Split(keyPath, <<>>)
      schemeRelative == Len(segments) >= 3 /\ segments[1] = <<>> /\ segments[2] = <<>>
      named == SkipEmpty(segments)
  IN IF schemeRelative /\ Len(named) > 0
     THEN [protocol |-> base.protocol, host |-> Head(named),
           pathname |-> ResolvePath(Join(Tail(named)))]
     ELSE [protocol |-> base.protocol, host |-> base.host, pathname |-> ResolvePath(keyPath)]

UpperLetters == <<"A", "B", "C", "E", "I", "K", "L", "M", "N", "P", "S", "U">>
LowerLetters == <<"a", "b", "c", "e", "i", "k", "l", "m", "n", "p", "s", "u">>

\* prefix.toLowerCase()
ToLowerCase(c) ==
  IF \E i \in 1..Len(UpperLetters) : UpperLetters[i] = c
  THEN LowerLetters[CHOOSE i \in 1..Len(UpperLetters) : UpperLetters[i] = c]
  ELSE c

expectArray == {"contents"}

SetMax(S) == CHOOSE x \in S : \A y \in S : y <= x

\* Where the expression's match that starts at token i ends, 0 when it does
\* not match there.  A self-closing tag matches alone.  An open tag <Pr>
\* matches up to the last </Pr> that comes before the next "<P" (the content
\* is ((?!<\1)[\s\S])*, so it stops before any tag whose name begins with the
\* same character).
MatchEnd(str, i) ==
  LET tk == str[i]
      sameInitial == {j \in (i + 1)..Len(str) :
                        str[j].k \in {"open", "self"} /\ str[j].p = tk.p}
      stop == IF sameInitial = {} THEN Len(str) + 1
              ELSE CHOOSE j \in sameInitial : \A x \in sameInitial : j <= x
      closes == {q \in (i + 1)..(stop - 1) :
                   str[q].k = "close" /\ str[q].p = tk.p /\ str[q].r = tk.r}
  IN CASE tk.k = "self" -> i
       [] tk.k = "open" /\ closes # {} -> SetMax(closes)
       [] OTHER -> 0

RECURSIVE _parseXml(_), ScanXml(_, _, _)

\* The while loop of _parseXml from token i on, json being the object so far.
ScanXml(str, i, json) ==
  IF i > Len(str) THEN json
  ELSE LET e == MatchEnd(str, i)
       IN IF e = 0 THEN ScanXml(str, i + 1, json)
          ELSE LET fullKey == ToLowerCase(str[i].p) \o str[i].r
                   parsedValue == IF str[i].k = "self" THEN Bool(TRUE)
                                  ELSE _parseXml(SubSeq(str, i + 1, e - 1))
                   has == fullKey \in DOMAIN json
                   stored ==
                     IF parsedValue.t = "string"
                     THEN Str(sanitizeETag(unescapeXml(parsedValue.s)))
                     ELSE IF has /\ json[fullKey].t = "array"
                     THEN Arr(Append(json[fullKey].a, parsedValue))
                     ELSE IF has THEN Arr(<<json[fullKey], parsedValue>>)
                     ELSE IF fullKey \in expectArray THEN Arr(<<parsedValue>>)
                     ELSE parsedValue
               IN ScanXml(str, e + 1,
                          [x \in DOMAIN json \cup {fullKey} |->
                             IF x = fullKey THEN stored ELSE json[x]])

_parseXml(str) ==
  LET json == ScanXml(str, 1, EmptyMap)
  IN IF DOMAIN json # {} THEN Obj(json) ELSE Str(unescapeXml(Render(str)))


\* ---------------------------------------------------------------- errors

\* A thrown error: its class, where it was raised, and what its message
\* carries (the status, the code, the message and the body of a response).
Thrown(cls, src) ==
  [cls |-> cls, src |-> src, status |-> 0, code |-> <<>>, message |-> <<>>,
   body |-> <<>>, wrapped |-> FALSE]

NoErr == Thrown("none", "none")

\* The first error of a sequence of checks, NoErr when all pass.
RECURSIVE FirstErr(_)
FirstErr(checks) ==
  IF Len(checks) = 0 THEN NoErr
  ELSE IF Head(checks).cls # "none" THEN Head(checks)
  ELSE FirstErr(Tail(checks))

\* ----------------------------------------------------- argument validation

IsBlank(v) == v.t # "string" \/ Len(Trim(v.s)) = 0

GET == <<"G", "E", "T">>
HEAD == <<"H", "E", "A", "D">>

_checkMethodHeadnGet(method) ==
  IF method.t = "string" /\ method.s \in {GET, HEAD} THEN NoErr
  ELSE Thrown("Error", "method")

_checkKey(key) == IF IsBlank(key) THEN Thrown("TypeError", "key") ELSE NoErr

_checkDelimiter(delimiter) ==
  IF IsBlank(delimiter) THEN Thrown("TypeError", "delimiter") ELSE NoErr

_checkPrefix(prefix) ==
  IF prefix.t # "string" THEN Thrown("TypeError", "prefix") ELSE NoErr

\* typeof maxKeys !== 'number' || maxKeys <= 0
_checkMaxKeys(maxKeys) ==
  IF maxKeys.t # "number" \/ (maxKeys.int /\ maxKeys.n <= 0) \/ (~maxKeys.int /\ maxKeys.n < 0)
  THEN Thrown("TypeError", "maxKeys")
  ELSE NoErr

\* typeof opts !== 'object': null, arrays and Buffers pass
_checkOpts(opts) ==
  IF TypeOf(opts) # "object" THEN Thrown("TypeError", "opts") ELSE NoErr

\* !(data instanceof Buffer || typeof data === 'string')
CheckData(data) ==
  IF data.t \in {"buffer", "string"} THEN NoErr ELSE Thrown("TypeError", "data")

CheckUploadId(uploadId) ==
  IF IsBlank(uploadId) THEN Thrown("TypeError", "uploadId") ELSE NoErr

\* !Number.isInteger(partNumber) || partNumber <= 0
CheckPartNumber(partNumber) ==
  IF partNumber.t # "number" \/ ~partNumber.int \/ partNumber.n <= 0
  THEN Thrown("TypeError", "partNumber")
  ELSE NoErr

\* typeof part.partNumber === 'number' && typeof part.ETag === 'string'
PartIsWellFormed(part) ==
  /\ part.t = "object"
  /\ "partNumber" \in DOMAIN part.m /\ part.m["partNumber"].t = "number"
  /\ "ETag" \in DOMAIN part.m /\ part.m["ETag"].t = "string"

\* !Array.isArray(parts) || parts.length === 0, then parts.every(...); reading
\* a property of a null or undefined entry is a TypeError of the runtime.
CheckParts(parts) ==
  IF parts.t # "array" \/ Len(parts.a) = 0 THEN Thrown("TypeError", "parts")
  ELSE IF \A i \in 1..Len(parts.a) : PartIsWellFormed(parts.a[i]) THEN NoErr
  ELSE LET bad == CHOOSE i \in 1..Len(parts.a) :
                    /\ ~PartIsWellFormed(parts.a[i])
                    /\ \A j \in 1..(i - 1) : PartIsWellFormed(parts.a[j])
       IN IF parts.a[bad].t \in {"null", "undefined"}
          THEN Thrown("TypeError", "native")
          ELSE Thrown("TypeError", "part")

\* Object.entries(v): the own enumerable properties; a TypeError of the
\* runtime for null and undefined.
IndexMap(seq) ==
  [x \in {Digits[i] : i \in 1..Len(seq)} |->
     seq[CHOOSE i \in 1..Len(seq) : Digits[i] = x]]

Entries(v) ==
  CASE v.t = "object" -> v.m
    [] v.t = "string" -> [x \in DOMAIN IndexMap(v.s) |-> Str(<<IndexMap(v.s)[x]>>)]
    [] v.t = "array" -> IndexMap(v.a)
    [] OTHER -> EmptyMap

CheckEntries(v) ==
  IF v.t \in {"null", "undefined"} THEN Thrown("TypeError", "native") ELSE NoErr

\* A parameter with its default value: the default applies to undefined only.
Default(v, d) == IF v.t = "undefined" THEN d ELSE v


\* -------------------------------------------------------------- escaping

PercentEncoded ==
  [c \in {" ", "\"", "#", "%", "&", "+", "/", "=", "?"} |->
     CASE c = " " -> <<"%", "2", "0">>
       [] c = "\"" -> <<"%", "2", "2">>
       [] c = "#" -> <<"%", "2", "3">>
       [] c = "%" -> <<"%", "2", "5">>
       [] c = "&" -> <<"%", "2", "6">>
       [] c = "+" -> <<"%", "2", "B">>
       [] c = "/" -> <<"%", "2", "F">>
       [] c = "=" -> <<"%", "3", "D">>
       [] OTHER -> <<"%", "3", "F">>]

\* encodeAsHex of the characters encodeURIComponent leaves alone
HexOfReserved ==
  [c \in {"!", "'", "(", ")", "*"} |->
     CASE c = "!" -> <<"%", "2", "1">>
       [] c = "'" -> <<"%", "2", "7">>
       [] c = "(" -> <<"%", "2", "8">>
       [] c = ")" -> <<"%", "2", "9">>
       [] OTHER -> <<"%", "2", "A">>]

RECURSIVE encodeURIComponent(_)
encodeURIComponent(s) ==
  IF Len(s) = 0 THEN <<>>
  ELSE (IF Head(s) \in DOMAIN PercentEncoded THEN PercentEncoded[Head(s)]
        ELSE <<Head(s)>>) \o encodeURIComponent(Tail(s))

RECURSIVE EncodeReserved(_)
EncodeReserved(s) ==
  IF Len(s) = 0 THEN <<>>
  ELSE (IF Head(s) \in DOMAIN HexOfReserved THEN HexOfReserved[Head(s)]
        ELSE <<Head(s)>>) \o EncodeReserved(Tail(s))

uriEscape(uriStr) == EncodeReserved(encodeURIComponent(uriStr))

uriResourceEscape(string) == ReplaceAll(uriEscape(string), <<"%", "2", "F">>, <<"/">>)

\* ---------------------------------------------------------------- requests

Merge(a, b) ==
  [x \in DOMAIN a \cup DOMAIN b |-> IF x \in DOMAIN b THEN b[x] ELSE a[x]]

Restrict(m, keys) == [x \in DOMAIN m \cap keys |-> m[x]]

Single(k, v) == [x \in {k} |-> v]

ifHeaders == {"if-match", "if-none-match", "if-modified-since", "if-unmodified-since"}

\* _filterIfHeaders: the conditional entries become headers, the rest stays
_filterIfHeaders(opts) ==
  [filteredOpts |-> Restrict(Entries(opts), DOMAIN Entries(opts) \ ifHeaders),
   conditionalHeaders |-> Restrict(Entries(opts), ifHeaders)]

\* { ...opts }
Spread(opts) == Entries(opts)

\* String(v) of the values that reach a query string or a template
ToStr(v) ==
  CASE v.t = "string" -> v.s
    [] v.t = "number" /\ v.int -> NumToString(v.n)
    [] v.t = "number" -> NumToString(v.n) \o <<".", "5">>
    [] OTHER -> <<"[", v.t, "]">>

\* new URLSearchParams(query): every value as a string
URLSearchParams(query) == [x \in DOMAIN query |-> Str(ToStr(query[x]))]

UNSIGNED_PAYLOAD == Str(<<"UNSIGNED-PAYLOAD">>)
JSON_CONTENT_TYPE == Str(<<"application/json">>)
XML_CONTENT_TYPE == Str(<<"application/xml">>)
DEFAULT_STREAM_CONTENT_TYPE == Str(<<"application/octet-stream">>)
LIST_TYPE == Str(<<"2">>)

\* _hash(content): the digest stands for the content it was computed from
_hash(content) == [t |-> "sha256", of |-> content]

\* Code units that stand for themselves in a string: the byte order mark,
\* a surrogate without its pair, and the replacement character.
BOM == "U+FEFF"
LoneSurrogate == "U+D800"
ReplacementCharacter == "U+FFFD"

\* UTF-8 bytes of a character; a lone surrogate is encoded as U+FFFD
Utf8Bytes(c) ==
  CASE c = "é" -> 2
    [] c \in {BOM, LoneSurrogate, ReplacementCharacter} -> 3
    [] OTHER -> 1

\* The UTF-8 bytes of the characters that need more than one; every other
\* character of the model is one byte and stands for it.
Utf8 ==
  [c \in {"é", BOM, ReplacementCharacter} |->
     CASE c = "é" -> <<"C3", "A9">>
       [] c = BOM -> <<"EF", "BB", "BF">>
       [] OTHER -> <<"EF", "BF", "BD">>]

\* The bytes fetch() puts on the wire for a string body: a surrogate without
\* its pair is encoded as U+FFFD.
RECURSIVE Utf8Encode(_)
Utf8Encode(s) ==
  IF Len(s) = 0 THEN <<>>
  ELSE (CASE Head(s) = LoneSurrogate -> Utf8[ReplacementCharacter]
          [] Head(s) \in DOMAIN Utf8 -> Utf8[Head(s)]
          [] OTHER -> <<Head(s)>>) \o Utf8Encode(Tail(s))

\* The characters of a byte sequence; a byte that is no part of a complete
\* character decodes to U+FFFD.
RECURSIVE Utf8Characters(_)
Utf8Characters(bytes) ==
  LET coded == {c \in DOMAIN Utf8 :
                  Len(bytes) >= Len(Utf8[c]) /\ SubSeq(bytes, 1, Len(Utf8[c])) = Utf8[c]}
      partial == \E c \in DOMAIN Utf8 : \E i \in 1..Len(Utf8[c]) : Utf8[c][i] = Head(bytes)
  IN IF Len(bytes) = 0 THEN <<>>
     ELSE IF coded # {}
     THEN LET c == CHOOSE x \in coded : TRUE
          IN <<c>> \o Utf8Characters(SubSeq(bytes, Len(Utf8[c]) + 1, Len(bytes)))
     ELSE IF partial THEN <<ReplacementCharacter>> \o Utf8Characters(Tail(bytes))
     ELSE <<Head(bytes)>> \o Utf8Characters(Tail(bytes))

\* UTF-8 decode, as res.text() does it: a leading byte order mark is dropped.
Utf8Decode(bytes) ==
  LET chars == Utf8Characters(bytes)
  IN IF Len(chars) > 0 /\ Head(chars) = BOM THEN Tail(chars) ELSE chars

RECURSIVE ByteLength(_)
ByteLength(s) == IF Len(s) = 0 THEN 0 ELSE Utf8Bytes(Head(s)) + ByteLength(Tail(s))

\* The bytes a body puts on the wire.
BodyBytes(body) ==
  CASE body.t = "buffer" -> body.len
    [] body.t = "string" -> ByteLength(body.s)
    [] body.t = "xml" -> ByteLength(Render(body.x))
    [] OTHER -> 0

\* data.length: bytes of a Buffer, UTF-16 code units of a string
LengthProperty(data) == IF data.t = "buffer" THEN data.len ELSE Len(data.s)

PartXml(part) ==
  Element("P", "art",
    Element("P", "artNumber", <<Text(ToStr(part.m["partNumber"]))>>)
    \o Element("E", "Tag", <<Text(part.m["ETag"].s)>>))

RECURSIVE PartsXml(_)
PartsXml(parts) ==
  IF Len(parts) = 0 THEN <<>> ELSE PartXml(Head(parts)) \o PartsXml(Tail(parts))

\* _buildCompleteMultipartUploadXml: the parts in the order they were given
_buildCompleteMultipartUploadXml(parts) ==
  [t |-> "xml", x |-> Element("C", "ompleteMultipartUpload", PartsXml(parts))]


\* A body is sent as it is when it is truthy: a Buffer always, a string when
\* it is not empty.
BodyTruthy(body) ==
  CASE body.t = "buffer" -> TRUE
    [] body.t = "string" -> Len(body.s) > 0
    [] body.t = "xml" -> TRUE
    [] OTHER -> FALSE

\* The characters of the property names the model uses; every other name is
\* one character.
KeyNames ==
  [k \in {"list-type", "max-keys", "prefix", "uploads", "uploadId", "partNumber", "versionId"} |->
     CASE k = "list-type" -> <<"l", "i", "s", "t", "-", "t", "y", "p", "e">>
       [] k = "max-keys" -> <<"m", "a", "x", "-", "k", "e", "y", "s">>
       [] k = "prefix" -> <<"p", "r", "e", "f", "i", "x">>
       [] k = "uploads" -> <<"u", "p", "l", "o", "a", "d", "s">>
       [] k = "uploadId" -> <<"u", "p", "l", "o", "a", "d", "I", "d">>
       [] k = "partNumber" -> <<"p", "a", "r", "t", "N", "u", "m", "b", "e", "r">>
       [] k = "versionId" -> <<"v", "e", "r", "s", "i", "o", "n", "I", "d">>]

Spell(key) == IF key \in DOMAIN KeyNames THEN KeyNames[key] ELSE <<key>>

\* The characters of the model by ascending UTF-16 code unit.
CodeUnits ==
  <<" ", "!", "\"", "#", "%", "&", "'", "(", ")", "*", "+", "-", ".", "/",
    "0", "1", "2", "3", "4", "5", "6", "7", "8", "9", ":", ";", "=", "?",
    "A", "B", "C", "D", "E", "F", "G", "H", "I", "J", "K", "L", "M", "N",
    "O", "P", "Q", "R", "S", "T", "U", "V", "W", "X", "Y", "Z", "_", "a",
    "b", "c", "d", "e", "f", "g", "h", "i", "j", "k", "l", "m", "n", "o",
    "p", "q", "r", "s", "t", "u", "v", "w", "x", "y", "z", "{", "~", "é">>

CodeUnit(c) == CHOOSE i \in 1..Len(CodeUnits) : CodeUnits[i] = c

\* a < b as Array.prototype.sort() compares strings: code unit by code unit,
\* a proper prefix first
RECURSIVE LexLess(_, _)
LexLess(a, b) ==
  IF Len(b) = 0 THEN FALSE
  ELSE IF Len(a) = 0 THEN TRUE
  ELSE IF Head(a) # Head(b) THEN CodeUnit(Head(a)) < CodeUnit(Head(b))
  ELSE LexLess(Tail(a), Tail(b))

\* The mutant of Sort that leaves the keys in their insertion order.
SortKeepsOrder(keys) == keys

\* keys.sort()
RECURSIVE Sort(_)
Sort(keys) ==
  IF Len(keys) = 0 THEN <<>>
  ELSE LET least == CHOOSE i \in 1..Len(keys) :
                      \A j \in 1..Len(keys) : ~LexLess(Spell(keys[j]), Spell(keys[i]))
       IN <<keys[least]>>
          \o Sort(SubSeq(keys, 1, least - 1) \o SubSeq(keys, least + 1, Len(keys)))

\* Object.keys(o) of an object of the model, whose properties have no order
RECURSIVE ObjectKeys(_)
ObjectKeys(o) ==
  IF DOMAIN o = {} THEN <<>>
  ELSE LET k == CHOOSE x \in DOMAIN o : TRUE
       IN <<k>> \o ObjectKeys(Restrict(o, DOMAIN o \ {k}))

\* pieces.join(separator)
RECURSIVE JoinWith(_, _)
JoinWith(pieces, separator) ==
  IF Len(pieces) = 0 THEN <<>>
  ELSE IF Len(pieces) = 1 THEN Head(pieces)
  ELSE Head(pieces) \o separator \o JoinWith(Tail(pieces), separator)

\* The body of _buildCanonicalQueryString for an object whose Object.keys()
\* is keys: the keys sorted, key=value with both sides encoded, joined by &.
CanonicalQueryString(keys, queryParams) ==
  IF Len(keys) < 1 THEN <<>>
  ELSE LET sorted == Sort(keys)
       IN JoinWith([i \in 1..Len(sorted) |->
                      encodeURIComponent(Spell(sorted[i])) \o <<"=">>
                      \o encodeURIComponent(ToStr(queryParams[sorted[i]]))],
                   <<"&">>)

_buildCanonicalQueryString(queryParams) ==
  CanonicalQueryString(ObjectKeys(queryParams), queryParams)

\* The mutant of RangeHeader that always asks from the first byte on.
RangeHeaderFromStart(rangeFrom, rangeTo) ==
  [t |-> "range", from |-> 0, to |-> rangeTo - 1]

\* The mutant of RangeHeader that sends rangeTo as the last byte.
RangeHeaderInclusive(rangeFrom, rangeTo) ==
  [t |-> "range", from |-> rangeFrom, to |-> rangeTo]

\* `bytes=${rangeFrom}-${rangeTo - 1}`: the first and the last byte asked for
RangeHeader(rangeFrom, rangeTo) ==
  [t |-> "range", from |-> rangeFrom, to |-> rangeTo - 1]

\* _sign: the URL and the headers of the signed request.  The signature
\* stands for what it was computed from.  _sign reads the configuration at
\* five points with suspensions between them: endpoint and bucketName for the
\* URL before its first await, region in _buildStringToSign, secretAccessKey
\* and then region in _getSignatureKey, region and accessKeyId in
\* _buildAuthorizationHeader.
_signFrom(atUrl, atScope, atSecret, atKey, atAuth, method, keyPath, query, headers, body) ==
  LET payload == IF BodyTruthy(body) THEN _hash(body) ELSE UNSIGNED_PAYLOAD
      resolved == ResolveUrl(keyPath, atUrl.endpoint)
      url == [protocol |-> resolved.protocol, host |-> resolved.host,
              bucketName |-> atUrl.bucketName, pathname |-> resolved.pathname]
      withAmz == Merge(headers,
                   Merge(Single("x-amz-content-sha256", payload),
                     Merge(Single("x-amz-date", Str(<<"datetime">>)),
                           Single("host", Str(url.host)))))
      canonicalRequest ==
        [method |-> method, url |-> url,
         query |-> _buildCanonicalQueryString(query),
         headers |-> withAmz, payload |-> payload]
      stringToSign == [region |-> atScope.region, request |-> canonicalRequest]
      signature == [secretAccessKey |-> atSecret.secretAccessKey, region |-> atKey.region,
                    stringToSign |-> stringToSign]
      authorization ==
        [t |-> "authorization", accessKeyId |-> atAuth.accessKeyId, region |-> atAuth.region,
         signedHeaders |-> DOMAIN withAmz, signature |-> signature]
  IN [url |-> url, headers |-> Merge(withAmz, Single("Authorization", authorization))]

\* _sign when the configuration does not change while it runs.
_sign(cfg, method, keyPath, query, headers, body) ==
  _signFrom(cfg, cfg, cfg, cfg, cfg, method, keyPath, query, headers, body)

\* The mutant of ToleratedRead that does not tolerate 304.
ToleratedReadWithout304 == {200, 404, 412}

\* The status codes get, getObjectWithETag and fileExists pass to the
\* transport as tolerated.
ToleratedRead == {200, 404, 412, 304}

\* The status codes getEtag passes to the transport as tolerated.
ToleratedEtag == {200, 412, 304}

Ops ==
  {"get", "getObjectWithETag", "getEtag", "getResponse", "put", "delete",
   "getContentLength", "fileExists", "bucketExists", "list", "listMultiPartUploads",
   "getMultipartUploadId", "uploadPart", "completeMultipartUpload",
   "abortMultipartUpload"}

\* The arguments of a call; a parameter that was not passed is undefined.
NoArgs ==
  [key |-> Undef, opts |-> Undef, data |-> Undef, uploadId |-> Undef,
   partNumber |-> Undef, parts |-> Undef, delimiter |-> Undef, prefix |-> Undef,
   maxKeys |-> Undef, method |-> Undef, fileType |-> Undef, wholeFile |-> Undef,
   rangeFrom |-> Undef, rangeTo |-> Undef]

SLASH == Str(<<"/">>)

\* The parameters of list and listMultiPartUploads with their defaults.
Delimiter(a) == Default(a.delimiter, SLASH)
Prefix(a) == Default(a.prefix, Str(<<>>))
MaxKeys(a) == Default(a.maxKeys, Num(1000))
Method(a) == Default(a.method, Str(GET))
Opts(a) == Default(a.opts, Obj(EmptyMap))
FileType(a) == Default(a.fileType, DEFAULT_STREAM_CONTENT_TYPE)

\* The checks an operation makes before it signs anything, in its order.
Validate(op, a) ==
  CASE op \in {"getContentLength", "delete"} -> _checkKey(a.key)
    [] op = "bucketExists" -> NoErr
    [] op \in {"fileExists", "get", "getObjectWithETag", "getEtag"} ->
         FirstErr(<<_checkKey(a.key), CheckEntries(Opts(a))>>)
    [] op = "getResponse" -> _checkKey(a.key)
    [] op = "list" ->
         FirstErr(<<_checkDelimiter(Delimiter(a)), _checkPrefix(Prefix(a)),
                    _checkMaxKeys(MaxKeys(a)), _checkMethodHeadnGet(Method(a)),
                    _checkOpts(Opts(a))>>)
    [] op = "listMultiPartUploads" ->
         FirstErr(<<_checkDelimiter(Delimiter(a)), _checkPrefix(Prefix(a)),
                    _checkMethodHeadnGet(Method(a)), _checkOpts(Opts(a))>>)
    [] op = "put" -> FirstErr(<<_checkKey(a.key), CheckData(a.data)>>)
    [] op = "getMultipartUploadId" ->
         FirstErr(<<_checkKey(a.key),
                    IF FileType(a).t # "string" THEN Thrown("TypeError", "fileType")
                    ELSE NoErr>>)
    [] op = "uploadPart" ->
         FirstErr(<<_checkKey(a.key), CheckData(a.data), CheckUploadId(a.uploadId),
                    CheckPartNumber(a.partNumber), _checkOpts(Opts(a))>>)
    [] op = "completeMultipartUpload" ->
         FirstErr(<<_checkKey(a.key), CheckUploadId(a.uploadId), CheckParts(a.parts)>>)
    [] OTHER -> FirstErr(<<_checkKey(a.key), CheckUploadId(a.uploadId)>>)

ReadHeaders(a) ==
  Merge(Merge(Single("Content-Type", JSON_CONTENT_TYPE),
              Single("x-amz-content-sha256", UNSIGNED_PAYLOAD)),
        _filterIfHeaders(Opts(a)).conditionalHeaders)

ListHeaders ==
  Merge(Single("Content-Type", JSON_CONTENT_TYPE),
        Single("x-amz-content-sha256", UNSIGNED_PAYLOAD))

\* What an operation hands to _sign and to _sendRequest once its arguments
\* passed: method, key path, the query it signs, headers, body, whether the
\* URL it fetches carries the query, and the tolerated status codes.
Plan(op, a, cfg) ==
  LET plan(method, keyPath, query, headers, body, urlQuery, tolerated) ==
        [method |-> method, keyPath |-> keyPath, query |-> query, headers |-> headers,
         body |-> body, urlQuery |-> urlQuery, tolerated |-> tolerated]
      key == uriResourceEscape(a.key.s)
      listKey == IF Delimiter(a) = SLASH THEN <<"/">> ELSE uriEscape(Delimiter(a).s)
      unsigned == Single("x-amz-content-sha256", UNSIGNED_PAYLOAD)
  IN CASE op = "getContentLength" ->
            plan("HEAD", key, EmptyMap, unsigned, Str(<<>>), FALSE, {})
       [] op = "bucketExists" ->
            plan("HEAD", <<>>, EmptyMap, unsigned, Str(<<>>), FALSE, {})
       [] op = "fileExists" ->
            plan("HEAD", key, _filterIfHeaders(Opts(a)).filteredOpts,
                 Merge(unsigned, _filterIfHeaders(Opts(a)).conditionalHeaders),
                 Str(<<>>), FALSE, ToleratedRead)
       [] op = "list" ->
            plan("GET", listKey,
                 Merge(Merge(Merge(Single("list-type", LIST_TYPE),
                                   Single("max-keys", Str(ToStr(MaxKeys(a))))),
                             Spread(Opts(a))),
                       IF Len(Prefix(a).s) > 0 THEN Single("prefix", Prefix(a))
                       ELSE EmptyMap),
                 ListHeaders, Str(<<>>), TRUE, {})
       [] op = "listMultiPartUploads" ->
            plan("GET", listKey, Merge(Single("uploads", Str(<<>>)), Spread(Opts(a))),
                 ListHeaders, Str(<<>>), TRUE, {})
       [] op \in {"get", "getObjectWithETag"} ->
            plan("GET", key, _filterIfHeaders(Opts(a)).filteredOpts, ReadHeaders(a),
                 Str(<<>>), FALSE, ToleratedRead)
       [] op = "getEtag" ->
            plan("HEAD", key, _filterIfHeaders(Opts(a)).filteredOpts, ReadHeaders(a),
                 Str(<<>>), FALSE, ToleratedEtag)
       [] op = "getResponse" ->
            plan("GET", key, _filterIfHeaders(Obj(Spread(Opts(a)))).filteredOpts,
                 Merge(Merge(ListHeaders,
                             IF Default(a.wholeFile, Bool(TRUE)).b THEN EmptyMap
                             ELSE Single("range",
                                    RangeHeader(Default(a.rangeFrom, Num(0)).n,
                                                Default(a.rangeTo,
                                                  Num(cfg.maxRequestSizeInBytes)).n))),
                       _filterIfHeaders(Obj(Spread(Opts(a)))).conditionalHeaders),
                 Str(<<>>), TRUE, {})
       [] op = "put" ->
            plan("PUT", key, EmptyMap,
                 Single("Content-Length", Num(BodyBytes(a.data))), a.data, FALSE, {})
       [] op = "getMultipartUploadId" ->
            plan("POST", key, Single("uploads", Str(<<>>)),
                 Merge(Single("Content-Type", FileType(a)), unsigned),
                 Str(<<>>), TRUE, {})
       [] op = "uploadPart" ->
            plan("PUT", key,
                 Merge(Merge(Single("uploadId", a.uploadId),
                             Single("partNumber", a.partNumber)),
                       Spread(Opts(a))),
                 Single("Content-Length", Num(LengthProperty(a.data))), a.data, TRUE, {})
       [] op = "completeMultipartUpload" ->
            LET xmlBody == _buildCompleteMultipartUploadXml(a.parts.a)
            IN plan("POST", key, Single("uploadId", a.uploadId),
                    Merge(Merge(Single("Content-Type", XML_CONTENT_TYPE),
                                Single("Content-Length",
                                       Str(NumToString(BodyBytes(xmlBody))))),
                          Single("x-amz-content-sha256", _hash(xmlBody))),
                    xmlBody, TRUE, {})
       [] op = "abortMultipartUpload" ->
            plan("DELETE", key, Single("uploadId", a.uploadId),
                 Merge(Single("Content-Type", XML_CONTENT_TYPE), unsigned),
                 Str(<<>>), TRUE, {})
       [] OTHER ->
            plan("DELETE", key, EmptyMap, ListHeaders, Str(<<>>), FALSE, {})

NoRequest == [t |-> "none"]

\* The request fetch() is called with once _sign resolved with signed for
\* the plan p of the operation: GET and HEAD never carry a body.
SignedRequest(p, signed) ==
  [t |-> "request", method |-> p.method, url |-> signed.url,
   search |-> IF p.urlQuery THEN URLSearchParams(p.query) ELSE EmptyMap,
   headers |-> signed.headers,
   body |-> IF p.method \in {"GET", "HEAD"} THEN Undef ELSE p.body,
   tolerated |-> p.tolerated]

\* The operation signs what it planned.  at holds the configuration as it
\* was at the five reads of _sign.
PlannedRequest(p, at) ==
  SignedRequest(p, _signFrom(at[1], at[2], at[3], at[4], at[5],
                             p.method, p.keyPath, p.query, p.headers, p.body))

\* The request of op(a): its plan is made from the configuration as it was
\* at the first read.
RequestFrom(op, a, at) == PlannedRequest(Plan(op, a, at[1]), at)

Request(op, a, cfg) == RequestFrom(op, a, <<cfg, cfg, cfg, cfg, cfg>>)


\* --------------------------------------------------------------- responses

\* A response: its status, the headers the client reads (null when the
\* header is absent) and its body.
Response(status, etag, contentLength, errorCode, errorMessage, body) ==
  [t |-> "response", status |-> status, etag |-> etag, contentLength |-> contentLength,
   errorCode |-> errorCode, errorMessage |-> errorMessage, body |-> body]

NoResponse == [t |-> "none"]

\* The mutant of Ok that takes every status for a success.
OkForEveryStatus(status) == TRUE

\* res.ok
Ok(status) == status >= 200 /\ status <= 299

StatusText(status) == <<"status">> \o NumToString(status)

Returned(v) == [kind |-> "return", val |-> v, err |-> NoErr]
Threw(e) == [kind |-> "throw", val |-> Undef, err |-> e]
NoResult == [kind |-> "none", val |-> Undef, err |-> NoErr]

\* await res.text()
ResText(body) == Utf8Decode(Render(body))

\* _handleErrorResponse: the error carries the status, the error code and
\* message headers (or their fallbacks) and the body.
_handleErrorResponse(res) ==
  [cls |-> "Error", src |-> "protocol", status |-> res.status,
   code |-> IF Truthy(res.errorCode) THEN res.errorCode.s ELSE <<"Unknown">>,
   message |-> IF Truthy(res.errorMessage) THEN res.errorMessage.s
               ELSE StatusText(res.status),
   body |-> ResText(res.body), wrapped |-> FALSE]

\* The mutant of _sendRequest that lets a 404 through for every caller.
_sendRequestToleratesNotFound(out, toleratedStatusCodes) ==
  IF out.t = "rejected" THEN Threw(out.err)
  ELSE IF ~Ok(out.status) /\ out.status \notin (toleratedStatusCodes \cup {404})
  THEN Threw(_handleErrorResponse(out))
  ELSE Returned(out)

\* _sendRequest once fetch settled: a rejection of fetch passes through, a
\* response is returned when it is ok or tolerated and is thrown otherwise.
_sendRequest(out, toleratedStatusCodes) ==
  IF out.t = "rejected" THEN Threw(out.err)
  ELSE IF ~Ok(out.status) /\ out.status \notin toleratedStatusCodes
  THEN Threw(_handleErrorResponse(out))
  ELSE Returned(out)

\* new Error(`...: ${error.message}`): a new error whose message holds the
\* message of the one that was caught
Wrap(e) == [e EXCEPT !.cls = "Error", !.wrapped = TRUE]

\* v[name] of a decoded value
Prop(v, name) ==
  IF v.t = "object" /\ name \in DOMAIN v.m THEN v.m[name] ELSE Undef

\* a || b
Either(a, b) == IF Truthy(a) THEN a ELSE b

\* The test the multipart calls make on a decoded body: an object with an
\* `error` that is an object holding `message`.
HasErrorMessage(parsed) ==
  /\ parsed.t = "object"
  /\ "error" \in DOMAIN parsed.m
  /\ parsed.m["error"].t = "object"
  /\ "message" \in DOMAIN parsed.m["error"].m

XmlError(parsed) ==
  [Thrown("Error", "xml") EXCEPT !.message = ToStr(parsed.m["error"].m["message"])]

\* The mutant of NotFoundOrConditionFailed that knows 404 only.
NotFoundOnly == {404}

\* res.status === 404 || res.status === 412 || res.status === 304
NotFoundOrConditionFailed == {404, 412, 304}

\* What is left of each operation after `await this._sendRequest(...)`
\* settled with sent; parsed is the decoded body of the response, for the
\* operations that decode it.
Completion(op, a, sent, parsed) ==
  LET res == sent.val
  IN CASE op = "getContentLength" ->
            IF sent.kind = "throw" THEN sent
            ELSE Returned(IF Truthy(res.contentLength) THEN ParseInt(res.contentLength.s)
                          ELSE Num(0))
       [] op = "bucketExists" ->
            IF sent.kind = "throw" THEN sent
            ELSE Returned(Bool(Ok(res.status) /\ res.status = 200))
       [] op = "fileExists" ->
            IF sent.kind = "throw" THEN Threw(Wrap(sent.err))
            ELSE IF res.status = 404 THEN Returned(Bool(FALSE))
            ELSE IF res.status \in {412, 304} THEN Returned(Null)
            ELSE IF Ok(res.status) /\ res.status = 200 THEN Returned(Bool(TRUE))
            ELSE Returned(Bool(FALSE))
       [] op = "list" ->
            IF sent.kind = "throw" THEN sent
            ELSE IF Method(a).s = HEAD
            THEN Returned(Obj(Merge(Single("size", res.contentLength),
                                    Single("ETag", res.etag))))
            ELSE LET output == Either(Prop(parsed, "listBucketResult"),
                                      Either(Prop(parsed, "error"), parsed))
                 IN Returned(Either(Prop(output, "contents"), output))
       [] op = "listMultiPartUploads" ->
            IF sent.kind = "throw" THEN sent
            ELSE IF Method(a).s = HEAD
            THEN Returned(Obj(Merge(Single("size", res.contentLength),
                                    Single("ETag", res.etag))))
            ELSE LET output == Either(Prop(parsed, "listMultipartUploadsResult"),
                                      Either(Prop(parsed, "error"), parsed))
                 IN Returned(Either(Prop(output, "uploads"), output))
       [] op = "get" ->
            IF sent.kind = "throw" THEN sent
            ELSE IF res.status \in NotFoundOrConditionFailed THEN Returned(Null)
            ELSE IF ~Ok(res.status) THEN Threw(Thrown("Error", "status"))
            ELSE Returned(Str(ResText(res.body)))
       [] op = "getObjectWithETag" ->
            IF sent.kind = "throw" THEN sent
            ELSE IF res.status \in NotFoundOrConditionFailed
            THEN Returned(Obj(Merge(Single("etag", Null), Single("data", Null))))
            ELSE IF ~Ok(res.status) THEN Threw(Thrown("Error", "status"))
            ELSE IF ~Truthy(res.etag) THEN Threw(Thrown("Error", "etag"))
            ELSE Returned(Obj(Merge(Single("etag", Str(sanitizeETag(res.etag.s))),
                                    Single("data", Str(ResText(res.body))))))
       [] op = "getEtag" ->
            IF sent.kind = "throw" THEN sent
            ELSE IF res.status \in {412, 304} THEN Returned(Null)
            ELSE IF ~Truthy(res.etag) THEN Threw(Thrown("Error", "etag"))
            ELSE Returned(Str(sanitizeETag(res.etag.s)))
       [] op \in {"getResponse", "put"} -> sent
       [] op = "getMultipartUploadId" ->
            IF sent.kind = "throw" THEN sent
            ELSE IF HasErrorMessage(parsed) THEN Threw(XmlError(parsed))
            ELSE IF parsed.t = "object"
            THEN IF ~Truthy(Prop(parsed, "initiateMultipartUploadResult"))
                    \/ ~Truthy(Prop(Prop(parsed, "initiateMultipartUploadResult"), "uploadId"))
                 THEN Threw(Thrown("Error", "uploadId"))
                 ELSE Returned(Prop(Prop(parsed, "initiateMultipartUploadResult"), "uploadId"))
            ELSE Threw(Thrown("Error", "format"))
       [] op = "uploadPart" ->
            IF sent.kind = "throw" THEN sent
            ELSE Returned(Obj(Merge(Single("partNumber", a.partNumber),
                                    Single("ETag",
                                           Str(sanitizeETag(Either(res.etag, Str(<<>>)).s))))))
       [] op = "completeMultipartUpload" ->
            IF sent.kind = "throw" THEN sent
            ELSE IF HasErrorMessage(parsed) THEN Threw(XmlError(parsed))
            ELSE Returned(Prop(parsed, "completeMultipartUploadResult"))
       [] op = "abortMultipartUpload" ->
            IF sent.kind = "throw" THEN Threw(Wrap(sent.err))
            ELSE IF Ok(res.status)
            THEN IF HasErrorMessage(parsed) THEN Threw(Wrap(XmlError(parsed)))
                 ELSE Returned(Obj(Merge(Merge(Single("status", Str(<<"Aborted">>)),
                                               Single("key", a.key)),
                                         Merge(Single("uploadId", a.uploadId),
                                               Single("response", parsed)))))
            ELSE Threw(Wrap(Thrown("Error", "status")))
       [] OTHER ->
            IF sent.kind = "throw" THEN sent
            ELSE Returned(Bool(res.status = 204 \/ res.status = 200))

\* The operation goes on with what _sendRequest settled with.
AfterSendRequest(op, a, sent) == Completion(op, a, sent, _parseXml(sent.val.body))

\* What a call settles with once fetch() settled with out.
Settle(op, a, out, tolerated) == AfterSendRequest(op, a, _sendRequest(out, tolerated))


\* ------------------------------------------------------------------ state

VARIABLES
  config,   \* the fields of the S3 instance
  calls,    \* the public calls of the client, one per slot
  objects,  \* the provider's bucket: path -> object
  uploads,  \* the provider's multipart sessions, by number
  pure      \* a pure function of the module under evaluation: input and output

vars == <<config, calls, objects, uploads, pure>>

CallIds == 1..MaxCalls

DefaultConfig ==
  [accessKeyId |-> <<"AKIDEXAMPLE">>, secretAccessKey |-> <<"secret">>,
   endpoint |-> <<"https://s3.example">>, bucketName |-> <<"bucket">>,
   region |-> <<"auto">>, maxRequestSizeInBytes |-> MIN_MAX_REQUEST_SIZE_IN_BYTES,
   requestAbortTimeout |-> Undef]

NoEvaluation == [fn |-> "none"]

\* A call: where it stands (idle, signing, inflight, done), how
\* often it signed and fetched, the request it sent, what fetch settled
\* with, and what the call settled with.
IdleCall ==
  [op |-> "none", args |-> NoArgs, pc |-> "idle", signs |-> 0, sends |-> 0,
   views |-> <<>>, req |-> NoRequest, out |-> NoResponse, result |-> NoResult]

Init ==
  /\ config = DefaultConfig
  /\ calls = [c \in CallIds |-> IdleCall]
  /\ objects = EmptyMap
  /\ uploads = <<>>
  /\ pure = NoEvaluation

InFlight == {c \in CallIds : calls[c].pc \notin {"idle", "done"}}

\* What a call reads of the configuration before its first suspension.
UrlView(cfg) ==
  [endpoint |-> cfg.endpoint, bucketName |-> cfg.bucketName,
   maxRequestSizeInBytes |-> cfg.maxRequestSizeInBytes]

\* The caller invokes op(a) in slot c: the synchronous checks run; a failed
\* check rejects the call at once, otherwise the call goes on to sign.
Invoke(c, op, a) ==
  /\ calls[c].pc = "idle"
  /\ LET e == Validate(op, a)
     IN calls' = [calls EXCEPT ![c] =
          IF e.cls # "none"
          THEN [IdleCall EXCEPT !.op = op, !.args = a, !.pc = "done", !.result = Threw(e)]
          ELSE [IdleCall EXCEPT !.op = op, !.args = a, !.pc = "signing",
                                !.views = <<UrlView(config)>>]]
  /\ UNCHANGED <<config, objects, uploads, pure>>

\* _sign resolves and the call goes straight on to fetch(); nothing has
\* changed the configuration since the call was invoked.
SignAndSend(c) ==
  /\ calls[c].pc = "signing"
  /\ calls[c].views = <<UrlView(config)>>
  /\ calls' = [calls EXCEPT ![c].pc = "inflight",
                            ![c].signs = @ + 1,
                            ![c].sends = @ + 1,
                            ![c].req = Request(calls[c].op, calls[c].args, config)]
  /\ UNCHANGED <<config, objects, uploads, pure>>

\* The mutant of Resolve that signs and sends again when the request failed.
ResolveWithRetry(call, out) ==
  IF out.t = "rejected" \/ ~Ok(out.status)
  THEN [call EXCEPT !.pc = "signing", !.out = out]
  ELSE [call EXCEPT !.pc = "done", !.out = out,
                    !.result = Settle(call.op, call.args, out, call.req.tolerated)]

\* fetch() has settled with out: the rest of the operation runs and the call
\* settles.
Resolve(call, out) ==
  [call EXCEPT !.pc = "done", !.out = out,
               !.result = Settle(call.op, call.args, out, call.req.tolerated)]

\* fetch() resolves with a response.
Respond(c, res) ==
  /\ calls[c].pc = "inflight"
  /\ calls' = [calls EXCEPT ![c] = Resolve(calls[c], res)]
  /\ UNCHANGED <<config, objects, uploads, pure>>

NetworkErrors ==
  {[Thrown("TypeError", "network") EXCEPT !.message = <<"fetch failed">>],
   [Thrown("DOMException", "network") EXCEPT !.message = <<"TimeoutError">>]}

\* fetch() rejects: the connection failed, or the abort timeout fired.
Reject(c, e) ==
  /\ calls[c].pc = "inflight"
  /\ e.cls = "DOMException" => config.requestAbortTimeout.t = "number"
  /\ calls' = [calls EXCEPT ![c] = Resolve(calls[c], [t |-> "rejected", err |-> e])]
  /\ UNCHANGED <<config, objects, uploads, pure>>

\* The caller has taken the result of a settled call: the slot is free.
Collect(c) ==
  /\ calls[c].pc = "done"
  /\ calls' = [calls EXCEPT ![c] = IdleCall]
  /\ UNCHANGED <<config, objects, uploads, pure>>

\* ----------------------------------------------------- the caller's inputs

K == Str(<<"k">>)
QuotedETag == Str(<<"\"", "a", "\"">>)
PlainETag == Str(<<"a">>)
UploadId1 == Str(<<"u", "1">>)

KeyArgs == {K, Str(<<>>), Str(<<" ">>), Num(7)}

IfMatch == Obj(Single("if-match", QuotedETag))
VersionId == Obj(Single("versionId", Str(<<"v">>)))

OptsArgs == {Undef, IfMatch, VersionId, Null, Str(<<"x">>)}

DataArgs == {Buf(1), Str(<<"é">>), Str(<<>>), Num(1)}

Part(n, etag) == Obj(Merge(Single("partNumber", n), Single("ETag", etag)))

PartsArgs ==
  {Undef, Arr(<<>>), Arr(<<Null>>), Arr(<<Part(Str(<<"1">>), PlainETag)>>),
   Arr(<<Part(Num(1), PlainETag)>>),
   Arr(<<Part(Num(1), PlainETag), Part(Num(2), Str(<<"b">>))>>),
   Arr(<<Part(Num(2), Str(<<"b">>)), Part(Num(1), PlainETag)>>)}

\* The argument lists the caller tries for each operation.
ArgChoices(op) ==
  CASE op \in {"get", "getObjectWithETag", "getEtag", "fileExists"} ->
         {[NoArgs EXCEPT !.key = k, !.opts = o] : k \in KeyArgs, o \in OptsArgs}
    [] op \in {"getContentLength", "delete"} ->
         {[NoArgs EXCEPT !.key = k] : k \in KeyArgs}
    [] op = "bucketExists" -> {NoArgs}
    [] op = "getResponse" ->
         {[NoArgs EXCEPT !.key = k, !.wholeFile = w[1], !.rangeFrom = w[2],
                         !.rangeTo = w[3], !.opts = o] :
            k \in {K, Str(<<>>)},
            w \in {<<Undef, Undef, Undef>>, <<Bool(FALSE), Undef, Undef>>,
                   <<Bool(FALSE), Num(0), Num(7)>>},
            o \in {Undef, VersionId, IfMatch}}
    [] op = "list" ->
         {[NoArgs EXCEPT !.delimiter = d, !.prefix = p, !.maxKeys = m, !.method = h,
                         !.opts = o] :
            d \in {Undef, Str(<<>>), Str(<<"d">>)},
            p \in {Undef, Str(<<"p">>), Num(1)},
            m \in {Undef, Num(0), Num(2)},
            h \in {Undef, Str(HEAD), Str(<<"P", "O", "S", "T">>)},
            o \in {Undef, Null, Str(<<"x">>)}}
    [] op = "listMultiPartUploads" ->
         {[NoArgs EXCEPT !.delimiter = d, !.prefix = p, !.method = h, !.opts = o] :
            d \in {Undef, Str(<<>>)},
            p \in {Undef, Num(1)},
            h \in {Undef, Str(HEAD), Str(<<"P", "O", "S", "T">>)},
            o \in {Undef, VersionId, Str(<<"x">>)}}
    [] op = "put" ->
         {[NoArgs EXCEPT !.key = k, !.data = d] : k \in {K, Str(<<>>)}, d \in DataArgs}
    [] op = "getMultipartUploadId" ->
         {[NoArgs EXCEPT !.key = k, !.fileType = f] :
            k \in KeyArgs, f \in {Undef, Str(<<"text/plain">>), Num(1)}}
    [] op = "uploadPart" ->
         {[NoArgs EXCEPT !.key = k, !.data = d, !.uploadId = u, !.partNumber = n,
                         !.opts = o] :
            k \in {K, Str(<<>>)},
            d \in {Buf(1), Str(<<"é">>), Num(1)},
            u \in {UploadId1, Str(<<>>), Undef},
            n \in {Num(1), Num(0), Frac(1), Str(<<"1">>)},
            o \in {Undef, Null, Str(<<"x">>)}}
    [] op = "completeMultipartUpload" ->
         {[NoArgs EXCEPT !.key = k, !.uploadId = u, !.parts = p] :
            k \in {K, Str(<<>>)}, u \in {UploadId1, Str(<<" ">>)}, p \in PartsArgs}
    [] OTHER ->
         {[NoArgs EXCEPT !.key = k, !.uploadId = u] :
            k \in {K, Str(<<>>)}, u \in {UploadId1, Str(<<>>), Num(1)}}

\* ------------------------------------------- what a server may answer

Statuses == {200, 204, 304, 403, 404, 412, 500}

T1(c) == Text(<<c>>)

EmptyBody == <<>>
HelloBody == <<Text(<<"H", "i">>)>>

ErrorBody ==
  Element("E", "rror",
    Element("C", "ode", <<Text(<<"NoSuchUpload">>)>>)
    \o Element("M", "essage", <<Text(<<"gone">>)>>))

ErrorBodyNoMessage ==
  Element("E", "rror", Element("C", "ode", <<Text(<<"InternalError">>)>>))

InitiateBody(uploadId) ==
  Element("I", "nitiateMultipartUploadResult",
    Element("B", "ucket", <<Text(<<"bucket">>)>>)
    \o Element("K", "ey", <<T1("k")>>)
    \o Element("U", "ploadId", <<Text(uploadId)>>))

CompleteBody(etag) ==
  Element("C", "ompleteMultipartUploadResult",
    Element("L", "ocation", <<Text(<<"https://s3.example/bucket/k">>)>>)
    \o Element("B", "ucket", <<Text(<<"bucket">>)>>)
    \o Element("K", "ey", <<T1("k")>>)
    \o Element("E", "Tag", <<Text(etag)>>))

ListBody ==
  Element("L", "istBucketResult",
    Element("N", "ame", <<Text(<<"bucket">>)>>)
    \o Element("C", "ontents",
         Element("K", "ey", <<T1("k")>>) \o Element("S", "ize", <<T1("2")>>)))

Bodies ==
  {EmptyBody, HelloBody, ErrorBody, ErrorBodyNoMessage, InitiateBody(UploadId1.s),
   CompleteBody(QuotedETag.s), ListBody}

\* etag, content-length, x-amz-error-code, x-amz-error-message
HeaderSets ==
  {<<Null, Null, Null, Null>>,
   <<QuotedETag, Str(<<"2">>), Null, Null>>,
   <<PlainETag, Null, Str(<<"AccessDenied">>), Str(<<"denied">>)>>}

Responses ==
  {Response(st, h[1], h[2], h[3], h[4], b) :
     st \in Statuses, h \in HeaderSets, b \in Bodies}

\* ---------------------------------------------------------- specification

\* One caller that awaits every call before the next, against a server that
\* may answer anything.
Next ==
  \/ \E op \in Ops : \E a \in ArgChoices(op) : Invoke(1, op, a)
  \/ SignAndSend(1)
  \/ \E res \in Responses : Respond(1, res)
  \/ \E e \in NetworkErrors : Reject(1, e)
  \/ Collect(1)

Spec == Init /\ [][Next]_vars


\* ------------------------------------------------- a conforming provider

\* The provider's name for its n-th multipart session.
UploadIdOf(n) == <<"u", Digits[n + 1]>>

\* The ETag the provider computes for a body: it stands for the content.
ETagOf(body) ==
  IF body.t = "buffer" THEN <<"b", Digits[body.len + 1]>> ELSE <<"s">> \o body.s

Quoted(s) == QUOT \o s \o QUOT

Plain(status, body) == Response(status, Null, Null, Null, Null, body)

\* The (PartNumber, ETag) pairs of a completion body, in document order.
RECURSIVE BodyParts(_)
BodyParts(x) ==
  IF Len(x) < 8 THEN <<>>
  ELSE IF x[1] = Open("P", "art")
  THEN <<[partNumber |-> ParseInt(x[3].s).n, etag |-> x[6].s]>> \o BodyParts(SubSeq(x, 9, Len(x)))
  ELSE BodyParts(Tail(x))

Ascending(nums) == \A i \in 1..(Len(nums) - 1) : nums[i] < nums[i + 1]

RECURSIVE SumSizes(_, _)
SumSizes(parts, stored) ==
  IF Len(parts) = 0 THEN 0
  ELSE stored[Head(parts).partNumber].size + SumSizes(Tail(parts), stored)

\* The bytes the provider receives for a body: a string arrives in UTF-8, and
\* the i-th byte of a Buffer of the model is the digit i - 1.
WireBytes(body) ==
  CASE body.t = "buffer" -> [i \in 1..body.len |-> Digits[((i - 1) % 10) + 1]]
    [] body.t = "string" -> Utf8Encode(body.s)
    [] OTHER -> <<>>

RECURSIVE JoinData(_, _)
JoinData(parts, stored) ==
  IF Len(parts) = 0 THEN <<>>
  ELSE stored[Head(parts).partNumber].data \o JoinData(Tail(parts), stored)

\* The open session a request names, 0 when there is none.
SessionOf(req) ==
  LET named == {n \in 1..Len(uploads) :
                  /\ "uploadId" \in DOMAIN req.search
                  /\ UploadIdOf(n) = req.search["uploadId"].s
                  /\ uploads[n].key = req.url.pathname
                  /\ uploads[n].state = "open"}
  IN IF named = {} THEN 0 ELSE CHOOSE n \in named : TRUE

\* The provider's answer to a request and the state it leaves: what the S3
\* protocol prescribes for the requests of the multipart calls and for HEAD.
\* errBody is the body the provider puts into an error answer.
Served(req, errBody) ==
  LET n == SessionOf(req)
      path == req.url.pathname
      same == [objects |-> objects, uploads |-> uploads]
      answer(res, st) == [res |-> res, objects |-> st.objects, uploads |-> st.uploads]
  IN CASE req.method = "POST" /\ "uploads" \in DOMAIN req.search ->
            answer(Plain(200, InitiateBody(UploadIdOf(Len(uploads) + 1))),
                   [same EXCEPT !.uploads =
                      Append(uploads, [key |-> path, state |-> "open", size |-> 0,
                                       parts |-> EmptyMap])])
       [] req.method = "PUT" /\ "uploadId" \in DOMAIN req.search ->
            IF n = 0 THEN answer(Plain(404, errBody), same)
            ELSE IF req.headers["Content-Length"].n # BodyBytes(req.body)
            THEN answer(Plain(400, errBody), same)
            ELSE LET pn == ParseInt(req.search["partNumber"].s).n
                     part == [size |-> BodyBytes(req.body), etag |-> ETagOf(req.body),
                              data |-> WireBytes(req.body)]
                 IN answer(Response(200, Str(Quoted(part.etag)), Null, Null, Null, EmptyBody),
                           [same EXCEPT !.uploads[n].parts =
                              Merge(uploads[n].parts, pn :> part)])
       [] req.method = "POST" /\ "uploadId" \in DOMAIN req.search ->
            IF n = 0 THEN answer(Plain(404, errBody), same)
            ELSE LET listed == BodyParts(req.body.x)
                     stored == uploads[n].parts
                 IN IF \/ Len(listed) = 0
                       \/ ~Ascending([i \in 1..Len(listed) |-> listed[i].partNumber])
                       \/ \E i \in 1..Len(listed) :
                            \/ listed[i].partNumber \notin DOMAIN stored
                            \/ stored[listed[i].partNumber].etag # sanitizeETag(listed[i].etag)
                    THEN answer(Plain(400, errBody), same)
                    ELSE LET size == SumSizes(listed, stored)
                         IN answer(Plain(200, CompleteBody(Quoted(<<"m", "p">>))),
                                   [objects |-> Merge(objects,
                                                  path :> [size |-> size, etag |-> <<"m", "p">>,
                                                           data |-> JoinData(listed, stored)]),
                                    uploads |-> [uploads EXCEPT ![n].state = "completed",
                                                                ![n].size = size]])
       [] req.method = "DELETE" /\ "uploadId" \in DOMAIN req.search ->
            IF n = 0 THEN answer(Plain(404, errBody), same)
            ELSE answer(Plain(204, EmptyBody),
                        [same EXCEPT !.uploads[n].state = "aborted"])
       [] req.method = "HEAD" ->
            IF path \in DOMAIN objects
            THEN answer(Response(200, Str(Quoted(objects[path].etag)),
                                 Str(NumToString(objects[path].size)), Null, Null, EmptyBody),
                        same)
            ELSE answer(Plain(404, EmptyBody), same)
       [] req.method = "PUT" ->
            IF req.headers["Content-Length"].n # Len(WireBytes(req.body))
            THEN answer(Plain(400, errBody), same)
            ELSE answer(Response(200, Str(Quoted(ETagOf(req.body))), Null, Null, Null, EmptyBody),
                        [same EXCEPT !.objects =
                           Merge(objects,
                                 path :> [size |-> Len(WireBytes(req.body)),
                                          etag |-> ETagOf(req.body),
                                          data |-> WireBytes(req.body)])])
       [] req.method = "GET" /\ req.search = EmptyMap ->
            IF path \notin DOMAIN objects THEN answer(Plain(404, errBody), same)
            ELSE IF "range" \in DOMAIN req.headers
                    /\ req.headers["range"].from <= req.headers["range"].to
            THEN LET first == req.headers["range"].from
                     last == req.headers["range"].to
                     size == objects[path].size
                     end == IF last < size THEN last + 1 ELSE size
                 IN IF first >= size THEN answer(Plain(416, errBody), same)
                    ELSE answer(Response(206, Str(Quoted(objects[path].etag)),
                                         Str(NumToString(end - first)), Null, Null,
                                         <<Text(SubSeq(objects[path].data, first + 1, end))>>),
                                same)
            ELSE answer(Response(200, Str(Quoted(objects[path].etag)),
                                 Str(NumToString(objects[path].size)), Null, Null,
                                 <<Text(objects[path].data)>>),
                        same)
       [] req.method = "DELETE" ->
            answer(Plain(204, EmptyBody),
                   [same EXCEPT !.objects = Restrict(objects, DOMAIN objects \ {path})])
       [] OTHER -> answer(Plain(501, errBody), same)

ErrorBodies == {ErrorBody, EmptyBody}

\* The key a path names: the provider undoes the percent-encoding.
RECURSIVE PercentDecode(_)
PercentDecode(path) ==
  LET table == Merge(PercentEncoded, HexOfReserved)
      coded == {c \in DOMAIN table : Len(path) >= 3 /\ SubSeq(path, 1, 3) = table[c]}
  IN IF Len(path) = 0 THEN <<>>
     ELSE IF coded # {} THEN <<CHOOSE c \in coded : TRUE>> \o PercentDecode(SubSeq(path, 4, Len(path)))
     ELSE <<Head(path)>> \o PercentDecode(Tail(path))

\* The paths of a set in the order the provider lists them.
RECURSIVE Listed(_)
Listed(paths) ==
  IF paths = {} THEN <<>>
  ELSE LET first == CHOOSE x \in paths : \A y \in paths : Len(x) <= Len(y)
       IN <<first>> \o Listed(paths \ {first})

\* The <Contents> element of one object.  algorithm is the checksum algorithm
\* the provider reports for its objects, empty when it reports none.
ContentsXml(path, algorithm) ==
  Element("C", "ontents",
    Element("K", "ey", <<Text(PercentDecode(path))>>)
    \o Element("L", "astModified", <<Text(<<"2024-01-01T00:00:00.000Z">>)>>)
    \o Element("E", "Tag", <<Text(QUOT_ENTITY \o objects[path].etag \o QUOT_ENTITY)>>)
    \o (IF Len(algorithm) = 0 THEN <<>>
        ELSE Element("C", "hecksumAlgorithm", <<Text(algorithm)>>))
    \o Element("S", "ize", <<Text(NumToString(objects[path].size))>>))

RECURSIVE AllContentsXml(_, _)
AllContentsXml(paths, algorithm) ==
  IF Len(paths) = 0 THEN <<>>
  ELSE ContentsXml(Head(paths), algorithm) \o AllContentsXml(Tail(paths), algorithm)

\* The body of a ListObjectsV2 answer for the whole bucket.
ListBucketResult(algorithm) ==
  Element("L", "istBucketResult",
    Element("N", "ame", <<Text(<<"bucket">>)>>)
    \o Element("K", "eyCount", <<Text(NumToString(Cardinality(DOMAIN objects)))>>)
    \o AllContentsXml(Listed(DOMAIN objects), algorithm))

ChecksumAlgorithms == {<<>>, <<"CRC64NVME">>}

IsListing(req) == req.method = "GET" /\ "list-type" \in DOMAIN req.search

\* The provider answers the listing request of call c.
ProvideListing(c, algorithm) ==
  /\ calls[c].pc = "inflight"
  /\ IsListing(calls[c].req)
  /\ calls' = [calls EXCEPT ![c] = Resolve(calls[c], Plain(200, ListBucketResult(algorithm)))]
  /\ UNCHANGED <<config, objects, uploads, pure>>

\* The provider serves the request of call c and fetch() resolves with the
\* answer.
Provide(c, errBody) ==
  /\ calls[c].pc = "inflight"
  /\ ~IsListing(calls[c].req)
  /\ LET served == Served(calls[c].req, errBody)
     IN /\ calls' = [calls EXCEPT ![c] = Resolve(calls[c], served.res)]
        /\ objects' = served.objects
        /\ uploads' = served.uploads
  /\ UNCHANGED <<config, pure>>

S3Ops ==
  {"getMultipartUploadId", "uploadPart", "completeMultipartUpload",
   "abortMultipartUpload"}

Settled(c, op) ==
  calls[c].op = op /\ calls[c].pc = "done" /\ calls[c].result.kind = "return"

\* The upload ids the caller holds: those its initiate calls returned.
KnownUploadIds ==
  {calls[c].result.val : c \in {d \in CallIds : Settled(d, "getMultipartUploadId")}}

\* The parts the caller holds: those its uploadPart calls returned for u.
KnownParts(u) ==
  {calls[c].result.val :
     c \in {d \in CallIds : Settled(d, "uploadPart") /\ calls[d].args.uploadId = u}}

Injective(f) == \A i, j \in DOMAIN f : f[i] = f[j] => i = j

\* Every way to list some of the held parts, each at most once.
PartLists(u) ==
  LET held == KnownParts(u)
  IN {Arr(f) : f \in {g \in UNION {[1..len -> held] : len \in 1..Cardinality(held)} :
                        Injective(g)}}

S3ArgChoices(op) ==
  CASE op = "getMultipartUploadId" -> {[NoArgs EXCEPT !.key = K]}
    [] op = "uploadPart" ->
         {[NoArgs EXCEPT !.key = K, !.data = d, !.uploadId = u, !.partNumber = n] :
            d \in {Buf(2), Str(<<"a">>)}, u \in KnownUploadIds,
            n \in {Num(1), Num(2)}}
    [] op = "completeMultipartUpload" ->
         UNION {{[NoArgs EXCEPT !.key = K, !.uploadId = u, !.parts = p] : p \in PartLists(u)} :
                  u \in KnownUploadIds}
    [] OTHER -> {[NoArgs EXCEPT !.key = K, !.uploadId = u] : u \in KnownUploadIds}

\* The caller starts its next call: the slots are used in order, and at most
\* MaxInFlight calls are unsettled at a time.
Start(c, op, a) ==
  /\ \A d \in 1..(c - 1) : calls[d].pc # "idle"
  /\ Cardinality(InFlight) < MaxInFlight
  /\ Invoke(c, op, a)

\* A caller with concurrent calls against a provider that keeps to the S3
\* protocol; the network may fail any request.
NextS3 ==
  \/ \E c \in CallIds : \E op \in S3Ops : \E a \in S3ArgChoices(op) : Start(c, op, a)
  \/ \E c \in CallIds : SignAndSend(c)
  \/ \E c \in CallIds : \E b \in ErrorBodies : Provide(c, b)
  \/ \E c \in CallIds : \E e \in NetworkErrors : Reject(c, e)

SpecS3 == Init /\ [][NextS3]_vars


\* The keys and the contents the caller stores: a plain key and one with
\* special characters; the empty string, a two-byte character, a string that
\* starts with a byte order mark and one with a surrogate without its pair.
ObjKeys == {K, Str(<<"k", " ", "!">>)}

ObjData == {Str(<<>>), Str(<<"é">>), Str(<<BOM, "a">>), Str(<<LoneSurrogate>>)}

MaxObjCalls == 3

ObjOps == {"put", "get", "getContentLength", "delete", "list"}

ObjArgChoices(op) ==
  IF op = "put" THEN {[NoArgs EXCEPT !.key = k, !.data = d] : k \in ObjKeys, d \in ObjData}
  ELSE IF op = "list" THEN {NoArgs}
  ELSE {[NoArgs EXCEPT !.key = k] : k \in ObjKeys}

\* The caller awaits each call before it starts the next and keeps what each
\* call settled with.
StartNext(c, op, a) ==
  /\ c <= MaxObjCalls
  /\ \A d \in 1..(c - 1) : calls[d].pc = "done"
  /\ Invoke(c, op, a)

\* A caller that stores, reads and deletes objects, one call after the
\* other, against a provider that keeps to the S3 protocol.
NextObj ==
  \/ \E c \in CallIds : \E op \in ObjOps : \E a \in ObjArgChoices(op) : StartNext(c, op, a)
  \/ \E c \in CallIds : SignAndSend(c)
  \/ \E c \in CallIds : Provide(c, ErrorBody)
  \/ \E c \in CallIds : \E algorithm \in ChecksumAlgorithms : ProvideListing(c, algorithm)
  \/ \E c \in CallIds : Reject(c, CHOOSE e \in NetworkErrors : e.cls = "TypeError")

SpecObj == Init /\ [][NextObj]_vars

\* The ranges the caller asks for, as (rangeFrom, rangeTo): inside an object
\* of eight bytes, up to its end, beyond its end and behind it.
Ranges == {<<0, 7>>, <<2, 5>>, <<0, 1>>, <<7, 8>>, <<6, 9>>, <<8, 9>>}

RangeData == {Buf(8), Str(<<"é", "a">>)}

RangeArgChoices(op) ==
  IF op = "put" THEN {[NoArgs EXCEPT !.key = K, !.data = d] : d \in RangeData}
  ELSE {[NoArgs EXCEPT !.key = K]}
       \cup {[NoArgs EXCEPT !.key = K, !.wholeFile = Bool(FALSE),
                            !.rangeFrom = Num(r[1]), !.rangeTo = Num(r[2])] : r \in Ranges}

\* A caller that stores an object and reads ranges of it, one call after the
\* other, against a provider that keeps to the S3 protocol.
NextRange ==
  \/ \E c \in CallIds : \E op \in {"put", "getResponse"} : \E a \in RangeArgChoices(op) :
       StartNext(c, op, a)
  \/ \E c \in CallIds : SignAndSend(c)
  \/ \E c \in CallIds : Provide(c, ErrorBody)
  \/ \E c \in CallIds : Reject(c, CHOOSE e \in NetworkErrors : e.cls = "TypeError")

SpecRange == Init /\ [][NextRange]_vars


\* --------------------------------------------- the functions on their own

\* An evaluation: the function, its input, and the results of applying it,
\* each application taking the result of the one before.
Evaluation(fn, input) == [fn |-> fn, input |-> input, outputs |-> <<>>]

MaxPieces == 3

\* The pieces ETags are put together from.
ETagPieces == {QUOT, QUOT_ENTITY, QUOT_NUMERIC, <<"a", "b", "c">>}

RECURSIVE Concat(_)
Concat(pieces) == IF Len(pieces) = 0 THEN <<>> ELSE Head(pieces) \o Concat(Tail(pieces))

ETagInputs ==
  {Concat(f) : f \in UNION {[1..n -> ETagPieces] : n \in 0..MaxPieces}}

MaxSiblings == 3

\* The children of an element: text-valued <Key>, <Size> and <Location>,
\* element-valued <Part>, some with one of two contents.
Children ==
  {[p |-> c[1], r |-> c[2], kind |-> c[3], value |-> <<c[4]>>] :
     c \in {<<"K", "ey", "text", "a">>, <<"K", "ey", "text", "b">>,
            <<"P", "art", "element", "1">>, <<"P", "art", "element", "2">>,
            <<"S", "ize", "text", "7">>, <<"L", "ocation", "text", "a">>}}

SiblingInputs == UNION {[1..n -> Children] : n \in 2..MaxSiblings}

ChildXml(child) ==
  Element(child.p, child.r,
    IF child.kind = "text" THEN <<Text(child.value)>>
    ELSE Element("N", "umber", <<Text(child.value)>>))

RECURSIVE ChildrenXml(_)
ChildrenXml(children) ==
  IF Len(children) = 0 THEN <<>>
  ELSE ChildXml(Head(children)) \o ChildrenXml(Tail(children))

\* The pieces a leaf's text is made of: entities, and what is left of an
\* entity when its ampersand was escaped.
TextPieces ==
  {<<"&", "a", "m", "p", ";">>, <<"&", "l", "t", ";">>, <<"l", "t", ";">>,
   <<"a", "m", "p", ";">>, QUOT_ENTITY, <<"a">>}

TextInputs ==
  {Concat(f) : f \in UNION {[1..n -> TextPieces] : n \in 1..MaxPieces}}

MaxParams == 3

\* The names and values of query parameters.
QueryNames == {"prefix", "uploadId", "uploads", "!", " "}

QueryValue(key) ==
  CASE key = "prefix" -> Str(<<"a", " ", "b">>)
    [] key = "uploads" -> Str(<<>>)
    [] key = "!" -> Num(2)
    [] OTHER -> Str(<<"u", "1">>)

\* Objects by the insertion order of their properties.
QueryInputs ==
  {f \in UNION {[1..n -> QueryNames] : n \in 0..MaxParams} : Injective(f)}

InitPure ==
  /\ config = DefaultConfig
  /\ calls = [c \in CallIds |-> IdleCall]
  /\ objects = EmptyMap
  /\ uploads = <<>>
  /\ \/ \E e \in ETagInputs : pure = Evaluation("sanitizeETag", e)
     \/ \E x \in SiblingInputs : pure = Evaluation("_parseXml", x)
     \/ \E q \in QueryInputs : pure = Evaluation("_buildCanonicalQueryString", q)
     \/ \E t \in TextInputs : pure = Evaluation("unescapeXml", t)

\* sanitizeETag is applied to the input, and then to what it returned.
ApplySanitizeETag ==
  /\ pure.fn = "sanitizeETag"
  /\ Len(pure.outputs) < 2
  /\ pure' = [pure EXCEPT !.outputs =
                 Append(@, sanitizeETag(IF Len(@) = 0 THEN pure.input ELSE @[Len(@)]))]
  /\ UNCHANGED <<config, calls, objects, uploads>>

\* _parseXml decodes <List> with the children of the input.
ApplyParseXml ==
  /\ pure.fn = "_parseXml"
  /\ Len(pure.outputs) = 0
  /\ pure' = [pure EXCEPT !.outputs =
                 <<_parseXml(Element("L", "ist", ChildrenXml(pure.input)))>>]
  /\ UNCHANGED <<config, calls, objects, uploads>>

\* _buildCanonicalQueryString is applied to the object whose properties were
\* inserted in the order of the input.
ApplyBuildCanonicalQueryString ==
  /\ pure.fn = "_buildCanonicalQueryString"
  /\ Len(pure.outputs) = 0
  /\ pure' = [pure EXCEPT !.outputs =
                 <<CanonicalQueryString(pure.input,
                     [k \in {pure.input[i] : i \in 1..Len(pure.input)} |-> QueryValue(k)])>>]
  /\ UNCHANGED <<config, calls, objects, uploads>>

\* _parseXml decodes <Key> with the input as its text.
ApplyUnescapeXml ==
  /\ pure.fn = "unescapeXml"
  /\ Len(pure.outputs) = 0
  /\ pure' = [pure EXCEPT !.outputs =
                 <<_parseXml(Element("K", "ey", <<Text(pure.input)>>))>>]
  /\ UNCHANGED <<config, calls, objects, uploads>>

NextPure ==
  \/ ApplySanitizeETag
  \/ ApplyParseXml
  \/ ApplyBuildCanonicalQueryString
  \/ ApplyUnescapeXml

SpecPure == InitPure /\ [][NextPure]_vars


\* ------------------------------------------------------------------ claims

Done(c) == calls[c].pc = "done"

\* Call c settled after fetch() resolved with a response.
Answered(c, op) ==
  calls[c].op = op /\ Done(c) /\ calls[c].sends > 0 /\ calls[c].out.t = "response"

Success == 200..299
Sentinels == {404, 412, 304}

\* A value that is given and is no object.
NonObject(v) == v.t \in {"string", "number", "boolean"}

ListOps == {"list", "listMultiPartUploads"}
KeyOps == Ops \ (ListOps \cup {"bucketExists"})
OptsOps ==
  ListOps \cup {"get", "getObjectWithETag", "getEtag", "fileExists", "getResponse",
                "uploadPart"}

\* The invalid arguments C1 lists, for the operations that take them.
InvalidArgument(op, a) ==
  \/ op \in KeyOps /\ (a.key.t # "string" \/ a.key.s = <<>>)
  \/ op \in ListOps /\ a.delimiter = Str(<<>>)
  \/ op \in ListOps /\ a.prefix.t \notin {"undefined", "string"}
  \/ op = "list" /\ a.maxKeys.t = "number" /\ a.maxKeys.int /\ a.maxKeys.n <= 0
  \/ op \in ListOps /\ a.method.t = "string" /\ a.method.s \notin {GET, HEAD}
  \/ op \in OptsOps /\ NonObject(a.opts)
  \/ op \in {"put", "uploadPart"} /\ a.data.t \notin {"buffer", "string"}
  \/ op \in {"uploadPart", "completeMultipartUpload", "abortMultipartUpload"}
       /\ a.uploadId \in {Undef, Str(<<>>)}
  \/ op = "uploadPart" /\ a.partNumber.t = "number"
       /\ (~a.partNumber.int \/ a.partNumber.n <= 0)
  \/ op = "completeMultipartUpload" /\ a.parts.t = "array"
       /\ (a.parts.a = <<>> \/ \E i \in 1..Len(a.parts.a) : ~PartIsWellFormed(a.parts.a[i]))

\* C1: a call with an invalid argument is rejected with a TypeError, and no
\* request has been signed or sent for it.
C1_InvalidArgumentIsTypeError ==
  \A c \in CallIds :
    Done(c) /\ InvalidArgument(calls[c].op, calls[c].args) =>
      /\ calls[c].result.kind = "throw"
      /\ calls[c].result.err.cls = "TypeError"
      /\ calls[c].signs = 0
      /\ calls[c].sends = 0

\* C2: the transport hands the response back exactly when its status is 2xx
\* or tolerated by the caller; for any other status the call throws the
\* error that carries the status, the x-amz-error-code and
\* x-amz-error-message headers and the body, and never returns normally.
C2_TransportThrowsOnUntoleratedStatus ==
  \A c \in CallIds :
    Done(c) /\ calls[c].out.t = "response" =>
      LET res == calls[c].out
          e == calls[c].result.err
          passes == res.status \in Success \/ res.status \in calls[c].req.tolerated
          thrownByTransport == calls[c].result.kind = "throw" /\ e.src = "protocol"
      IN /\ passes <=> ~thrownByTransport
         /\ ~passes =>
              /\ e.status = res.status
              /\ e.body = Render(res.body)
              /\ res.errorCode.t = "string" => e.code = res.errorCode.s
              /\ res.errorMessage.t = "string" => e.message = res.errorMessage.s

C2_Witness ==
  \E c \in CallIds :
    /\ Answered(c, "put")
    /\ calls[c].out.status = 403
    /\ calls[c].out.errorCode = Str(<<"AccessDenied">>)
    /\ calls[c].result.kind = "throw"
    /\ calls[c].result.err.status = 403
    /\ calls[c].result.err.code = <<"AccessDenied">>

C4_FileExistsThreeValued ==
  \A c \in CallIds :
    Answered(c, "fileExists") =>
      LET res == calls[c].out
      IN /\ res.status = 200 => calls[c].result = Returned(Bool(TRUE))
         /\ res.status = 404 => calls[c].result = Returned(Bool(FALSE))
         /\ res.status \in {412, 304} => calls[c].result = Returned(Null)

C4_Witness ==
  \E c \in CallIds :
    /\ Answered(c, "fileExists")
    /\ calls[c].out.status = 304
    /\ calls[c].result = Returned(Null)

\* C5: bucketExists returns true on 200 and returns false, without throwing,
\* on every other status, 404 included.
C5_BucketExistsIsBoolean ==
  \A c \in CallIds :
    Answered(c, "bucketExists") =>
      calls[c].result = Returned(Bool(calls[c].out.status = 200))

Unquoted(s) == SelectSeq(s, LAMBDA ch : ch # "\"")

\* C6: on 404, 412 and 304 getObjectWithETag returns {etag: null, data: null}
\* and getEtag returns null, neither throwing; on 200 with an ETag header
\* both return the ETag without its quotes.
C6_ETagSentinels ==
  \A c \in CallIds :
    LET res == calls[c].out
        val == calls[c].result.val
    IN /\ Answered(c, "getObjectWithETag") /\ res.status \in Sentinels =>
            calls[c].result =
              Returned(Obj(Merge(Single("etag", Null), Single("data", Null))))
       /\ Answered(c, "getEtag") /\ res.status \in Sentinels =>
            calls[c].result = Returned(Null)
       /\ Answered(c, "getObjectWithETag") /\ res.status = 200 /\ res.etag.t = "string" =>
            /\ calls[c].result.kind = "return"
            /\ val.m["etag"] = Str(Unquoted(res.etag.s))
       /\ Answered(c, "getEtag") /\ res.status = 200 /\ res.etag.t = "string" =>
            calls[c].result = Returned(Str(Unquoted(res.etag.s)))

\* C7: the completion body lists the parts in ascending partNumber order,
\* whatever the order of the parts array.
C7_PartsAscendInBody ==
  \A c \in CallIds :
    calls[c].op = "completeMultipartUpload" /\ calls[c].sends > 0 =>
      LET listed == BodyParts(calls[c].req.body.x)
      IN /\ Len(listed) = Len(calls[c].args.parts.a)
         /\ \A i \in 1..(Len(listed) - 1) :
              listed[i].partNumber <= listed[i + 1].partNumber

\* C10: completeMultipartUpload throws whenever the decoded response body
\* carries an `error` node, also under a 2xx status.
C10_ErrorNodeThrows ==
  \A c \in CallIds :
    Answered(c, "completeMultipartUpload") =>
      LET parsed == _parseXml(calls[c].out.body)
      IN parsed.t = "object" /\ "error" \in DOMAIN parsed.m =>
           calls[c].result.kind = "throw"


\* The provider's session that an upload id names.
SessionNamed(u) == CHOOSE n \in 1..Len(uploads) : UploadIdOf(n) = u.s

\* The session that upload id u names has been completed.
Completed(u) ==
  \E n \in 1..Len(uploads) : Str(UploadIdOf(n)) = u /\ uploads[n].state = "completed"

\* Calls a and c name the same upload of the same key.
SameUpload(a, c) ==
  calls[a].args.key = calls[c].args.key /\ calls[a].args.uploadId = calls[c].args.uploadId

\* C8: once abortMultipartUpload has returned for an upload, every
\* completeMultipartUpload that is invoked afterwards for the same key and
\* uploadId with well-formed parts throws, and that session never makes an
\* object.
C8_NoCompleteAfterAbort ==
  \A a \in CallIds : \A c \in CallIds :
    [](Settled(a, "abortMultipartUpload") /\ calls[c].pc = "idle" =>
         [](/\ ~Completed(calls[a].args.uploadId)
            /\ Done(c) /\ calls[c].op = "completeMultipartUpload" /\ SameUpload(a, c) =>
                 calls[c].result.kind = "throw"))

C8_Witness ==
  \E a \in CallIds : \E c \in CallIds :
    /\ Settled(a, "abortMultipartUpload")
    /\ a < c
    /\ Answered(c, "completeMultipartUpload")
    /\ SameUpload(a, c)
    /\ calls[c].out.status = 404
    /\ calls[c].result.kind = "throw"
    /\ calls[c].result.err.status = 404
    /\ objects = EmptyMap

\* The bytes that were uploaded for the parts of a list: each part is the
\* result of an uploadPart call of the caller.
RECURSIVE UploadedBytes(_, _)
UploadedBytes(u, parts) ==
  IF Len(parts) = 0 THEN 0
  ELSE LET d == CHOOSE x \in CallIds :
                  /\ Settled(x, "uploadPart")
                  /\ calls[x].args.uploadId = u
                  /\ calls[x].result.val = Head(parts)
       IN BodyBytes(calls[d].args.data) + UploadedBytes(u, Tail(parts))

MultipartOps ==
  {"getMultipartUploadId", "uploadPart", "completeMultipartUpload", "abortMultipartUpload"}

\* The request failed: fetch rejected, or the status is not 2xx.
Failed(out) == out.t = "rejected" \/ (out.t = "response" /\ out.status \notin Success)

\* C11: a call sends at most one request: a request is sent only by a call
\* that has sent none and has no outcome yet; and a multipart call whose
\* request failed (network error or non-2xx status) settles by throwing,
\* with that one request sent.
C11_NoRetry ==
  [][\A c \in CallIds :
       /\ calls'[c].sends <= 1
       /\ calls'[c].sends > calls[c].sends =>
            calls[c].sends = 0 /\ calls[c].out.t = "none"
       /\ calls'[c].pc = "done" /\ calls'[c].op \in MultipartOps /\ Failed(calls'[c].out) =>
            calls'[c].result.kind = "throw" /\ calls'[c].sends = 1]_vars

C11_Witness ==
  \E c \in CallIds :
    /\ calls[c].op = "uploadPart"
    /\ Done(c)
    /\ calls[c].out.t = "rejected"
    /\ calls[c].result = Threw(calls[c].out.err)
    /\ calls[c].sends = 1


\* ------------------------------------------ a caller that uses the setters

setRegion(region) ==
  /\ config' = [config EXCEPT !.region = region]
  /\ UNCHANGED <<calls, objects, uploads, pure>>

setBucketName(bucketName) ==
  /\ config' = [config EXCEPT !.bucketName = bucketName]
  /\ UNCHANGED <<calls, objects, uploads, pure>>

setEndpoint(endpoint) ==
  /\ config' = [config EXCEPT !.endpoint = endpoint]
  /\ UNCHANGED <<calls, objects, uploads, pure>>

_validateConstructorParams(accessKeyId, secretAccessKey, endpoint, bucketName) ==
  FirstErr(<<IF IsBlank(accessKeyId) THEN Thrown("TypeError", "accessKeyId") ELSE NoErr,
             IF IsBlank(secretAccessKey) THEN Thrown("TypeError", "secretAccessKey") ELSE NoErr,
             IF IsBlank(endpoint) THEN Thrown("TypeError", "endpoint") ELSE NoErr,
             IF IsBlank(bucketName) THEN Thrown("TypeError", "bucketName") ELSE NoErr>>)

\* setProps: it hands bucketName and endpoint to the validation in each
\* other's place; when the validation throws, nothing is assigned.
setProps(props) ==
  /\ config' =
       IF _validateConstructorParams(props.accessKeyId, props.secretAccessKey,
                                     props.bucketName, props.endpoint).cls # "none"
       THEN config
       ELSE [accessKeyId |-> props.accessKeyId.s,
             secretAccessKey |-> props.secretAccessKey.s,
             region |-> Either(props.region, Str(<<"auto">>)).s,
             bucketName |-> props.bucketName.s,
             endpoint |-> props.endpoint.s,
             maxRequestSizeInBytes |->
               Either(props.maxRequestSizeInBytes, Num(MIN_MAX_REQUEST_SIZE_IN_BYTES)).n,
             requestAbortTimeout |-> props.requestAbortTimeout]
  /\ UNCHANGED <<calls, objects, uploads, pure>>

\* _sign resumes after a suspension and reads the configuration: region in
\* _buildStringToSign, then secretAccessKey and then region in
\* _getSignatureKey.
SignStep(c) ==
  /\ calls[c].pc = "signing"
  /\ Len(calls[c].views) \in 1..3
  /\ calls' = [calls EXCEPT ![c].views =
       Append(@, IF Len(@) = 2 THEN [secretAccessKey |-> config.secretAccessKey]
                 ELSE [region |-> config.region])]
  /\ UNCHANGED <<config, objects, uploads, pure>>

\* _buildAuthorizationHeader reads region and accessKeyId, _sign resolves
\* and the call goes on to fetch().
SignedSend(c) ==
  /\ calls[c].pc = "signing"
  /\ Len(calls[c].views) = 4
  /\ calls' = [calls EXCEPT ![c].pc = "inflight",
                            ![c].signs = @ + 1,
                            ![c].sends = @ + 1,
                            ![c].req = RequestFrom(calls[c].op, calls[c].args,
                                                   Append(calls[c].views, config))]
  /\ UNCHANGED <<config, objects, uploads, pure>>

OtherProps ==
  [accessKeyId |-> Str(<<"AKIDOTHER">>), secretAccessKey |-> Str(<<"other">>),
   endpoint |-> Str(<<"https://s3.example">>), bucketName |-> Str(<<"bucket">>),
   region |-> Undef, maxRequestSizeInBytes |-> Undef, requestAbortTimeout |-> Num(1)]

PropsArgs == {OtherProps, [OtherProps EXCEPT !.bucketName = Str(<<>>)]}

\* One call at a time, while the caller's other code uses the setters at
\* the call's suspension points.
NextCfg ==
  \/ \E op \in {"get", "put"} :
       \E a \in {[NoArgs EXCEPT !.key = K, !.data = Buf(1)]} : Invoke(1, op, a)
  \/ SignStep(1)
  \/ SignedSend(1)
  \/ \E res \in {Plain(200, HelloBody), Plain(403, ErrorBody)} : Respond(1, res)
  \/ \E e \in NetworkErrors : Reject(1, e)
  \/ Collect(1)
  \/ \E region \in {<<"auto">>, <<"eu">>} : setRegion(region)
  \/ \E bucketName \in {<<"bucket">>, <<"other">>} : setBucketName(bucketName)
  \/ \E endpoint \in {<<"https://s3.example">>, <<"https://r2.example">>} :
       setEndpoint(endpoint)
  \/ \E props \in PropsArgs : setProps(props)

SpecCfg == Init /\ [][NextCfg]_vars

\* C12: every signed request is built from one view of the configuration:
\* the region of the credential scope in the string to sign, the region the
\* signing key is derived with and the region of the Credential in the
\* Authorization header are the same.
C12_OneConfigView ==
  \A c \in CallIds :
    calls[c].sends > 0 =>
      LET authorization == calls[c].req.headers["Authorization"]
      IN /\ authorization.region = authorization.signature.region
         /\ authorization.region = authorization.signature.stringToSign.region


\* C13: put/get round trip.  Call p is a put of the string d under key k that
\* succeeded, call g is a later call with the same key, and no put or delete
\* of k was made between them.
RoundTrip(p, g) ==
  /\ p < g
  /\ calls[p].op = "put" /\ Done(p) /\ calls[p].result.kind = "return"
  /\ calls[p].args.data.t = "string"
  /\ Answered(g, calls[g].op)
  /\ calls[g].args.key = calls[p].args.key
  /\ \A m \in (p + 1)..(g - 1) :
        calls[m].op \in {"put", "delete"} => calls[m].args.key # calls[p].args.key
  /\ calls[g].op \in {"get", "getContentLength"}

\* C13: after put(k, d) succeeded and with no put or delete of k since, get(k)
\* returns exactly the string d and getContentLength(k) returns the number of
\* bytes of d in UTF-8, for every key and every string d.
C13_PutGetRoundTrip ==
  \A p, g \in CallIds :
    RoundTrip(p, g) =>
      /\ calls[g].op = "get" => calls[g].result = Returned(calls[p].args.data)
      /\ calls[g].op = "getContentLength" =>
            calls[g].result = Returned(Num(ByteLength(calls[p].args.data.s)))


\* The keys in the bucket when the listing of call c was answered: the bucket
\* does not change while the caller awaits the call.
ListedKeys(c) == DOMAIN objects

ListAnswered(c) ==
  /\ Answered(c, "list") /\ calls[c].out.status = 200
  /\ \A d \in CallIds : d > c => calls[d].pc = "idle"

\* C14: list() returns an array of length 1 when exactly one key of the
\* bucket matches.
C14_OneKeyListsAsArray ==
  \A c \in CallIds :
    ListAnswered(c) /\ Cardinality(ListedKeys(c)) = 1 =>
      /\ calls[c].result.kind = "return"
      /\ calls[c].result.val.t = "array"
      /\ Len(calls[c].result.val.a) = 1

\* C15: list() by GET returns a sequence for every successful answer, the
\* empty sequence when no key matches, and never a bare object.
C15_ListIsSequence ==
  \A c \in CallIds :
    ListAnswered(c) =>
      /\ calls[c].result.kind = "return"
      /\ calls[c].result.val.t = "array"
      /\ Len(calls[c].result.val.a) = Cardinality(ListedKeys(c))


\* Call c is getResponse(key, false, from, to) with 0 <= from < to and has
\* sent its request.
Ranged(c) ==
  /\ calls[c].op = "getResponse" /\ calls[c].sends > 0
  /\ calls[c].args.wholeFile = Bool(FALSE)
  /\ calls[c].args.rangeFrom.t = "number" /\ calls[c].args.rangeTo.t = "number"
  /\ 0 <= calls[c].args.rangeFrom.n
  /\ calls[c].args.rangeFrom.n < calls[c].args.rangeTo.n

\* The provider answered the ranged call c with a part of the object, and no
\* call was started since.
PartlyServed(c) ==
  /\ Ranged(c) /\ Done(c)
  /\ calls[c].out.t = "response" /\ calls[c].out.status = 206
  /\ \A d \in CallIds : d > c => calls[d].pc = "idle"

\* The bytes the response of call c streams.
Streamed(c) == Render(calls[c].result.val.body)

StoredBytes(c) == objects[calls[c].req.url.pathname].data

Applied(fn, n) == pure.fn = fn /\ Len(pure.outputs) >= n

\* C18: sanitizeETag is idempotent: for every string e, applying it to
\* sanitizeETag(e) gives sanitizeETag(e) again; "abc" in quotes, in &quot;
\* entities and bare all give abc.
C18_SanitizeIdempotent ==
  /\ Applied("sanitizeETag", 2) => pure.outputs[2] = pure.outputs[1]
  /\ /\ Applied("sanitizeETag", 1)
     /\ pure.input \in {QUOT \o <<"a", "b", "c">> \o QUOT,
                        QUOT_ENTITY \o <<"a", "b", "c">> \o QUOT_ENTITY,
                        <<"a", "b", "c">>}
     => pure.outputs[1] = <<"a", "b", "c">>

\* s neither begins nor ends with a quote or one of its entities.
Bare(s) == LeadQuote(s) = 0 /\ TrailQuote(s) = 0

\* C18: sanitizeETag strips one quote form from each end.  Applying it again
\* changes nothing exactly when its result is bare, and strips once more when
\* it is not; "abc" in quotes, in &quot; entities and bare all give abc, which
\* a second application leaves as it is.
C18_SanitizeStripsOnePair ==
  /\ Applied("sanitizeETag", 2) =>
       (pure.outputs[2] = pure.outputs[1] <=> Bare(pure.outputs[1]))
  /\ /\ Applied("sanitizeETag", 1)
     /\ pure.input \in {QUOT \o <<"a", "b", "c">> \o QUOT,
                        QUOT_ENTITY \o <<"a", "b", "c">> \o QUOT_ENTITY,
                        <<"a", "b", "c">>}
     => /\ pure.outputs[1] = <<"a", "b", "c">>
        /\ Bare(pure.outputs[1])

\* The quoted ETag was sanitized twice and its second result is its first.
C18_Witness ==
  /\ Applied("sanitizeETag", 2)
  /\ pure.input = QUOT_ENTITY \o <<"a", "b", "c">> \o QUOT_ENTITY
  /\ pure.outputs = <<<<"a", "b", "c">>, <<"a", "b", "c">>>>

\* The positions of the children of the input that carry the name of child i.
Occurrences(i) ==
  {j \in 1..Len(pure.input) :
     pure.input[j].p = pure.input[i].p /\ pure.input[j].r = pure.input[i].r}

\* What a child decodes to on its own.
Decoded(child) ==
  IF child.kind = "text" THEN Str(child.value)
  ELSE Obj(Single("number", Str(child.value)))

\* The members of a set of positions in ascending order.
RECURSIVE InOrder(_)
InOrder(positions) ==
  IF positions = {} THEN <<>>
  ELSE LET first == CHOOSE x \in positions : \A y \in positions : x <= y
       IN <<first>> \o InOrder(positions \ {first})

\* C19: when a tag name occurs k >= 2 times among the children of an element,
\* the decoded value under that name is the array of the k decoded values in
\* document order, for text-valued and element-valued children alike.
C19_RepeatedSiblingsDecodeToArray ==
  Applied("_parseXml", 1) =>
    \A i \in 1..Len(pure.input) :
      Cardinality(Occurrences(i)) >= 2 =>
        LET at == InOrder(Occurrences(i))
            name == ToLowerCase(pure.input[i].p) \o pure.input[i].r
        IN Prop(Prop(pure.outputs[1], "list"), name) =
             Arr([n \in 1..Len(at) |-> Decoded(pure.input[at[n]])])

\* The keys of the evaluated query in strictly ascending order.
Ascends(keys) ==
  \A i \in 1..(Len(keys) - 1) : LexLess(Spell(keys[i]), Spell(keys[i + 1]))

\* The pieces of str between the occurrences of a separator.
RECURSIVE SplitAt(_, _, _)
SplitAt(str, separator, piece) ==
  IF Len(str) = 0 THEN <<piece>>
  ELSE IF Head(str) = separator THEN <<piece>> \o SplitAt(Tail(str), separator, <<>>)
  ELSE SplitAt(Tail(str), separator, Append(piece, Head(str)))

\* The parameters a query string lists, as <<key, value>>, both still encoded.
Listing(str) ==
  IF Len(str) = 0 THEN <<>>
  ELSE LET pieces == SplitAt(str, "&", <<>>)
       IN [i \in 1..Len(pieces) |->
             LET sides == SplitAt(pieces[i], "=", <<>>) IN <<sides[1], sides[Len(sides)]>>]

\* C20: whatever the insertion order of the parameters, the canonical query
\* string lists every parameter once as key=value, the keys in ascending
\* lexicographic order, joined by &; without parameters it is empty.
C20_CanonicalQueryIsSorted ==
  Applied("_buildCanonicalQueryString", 1) =>
    LET listing == Listing(pure.outputs[1])
        names == {pure.input[i] : i \in 1..Len(pure.input)}
    IN /\ Len(listing) = Len(pure.input)
       /\ \E keys \in [1..Len(pure.input) -> names] :
            /\ Ascends(keys)
            /\ \A i \in 1..Len(keys) :
                 /\ listing[i][1] = encodeURIComponent(Spell(keys[i]))
                 /\ listing[i][2] = encodeURIComponent(ToStr(QueryValue(keys[i])))
       /\ Len(pure.input) = 0 => pure.outputs[1] = <<>>

\* Three parameters were inserted in descending order and are listed in
\* ascending order.
C20_Witness ==
  /\ Applied("_buildCanonicalQueryString", 1)
  /\ pure.input = <<"uploads", "uploadId", "prefix">>
  /\ pure.outputs[1] =
       <<"p", "r", "e", "f", "i", "x", "=", "a", "%", "2", "0", "b", "&",
         "u", "p", "l", "o", "a", "d", "I", "d", "=", "u", "1", "&",
         "u", "p", "l", "o", "a", "d", "s", "=">>


\* ------------------------------------------------- the setters on their own

setMaxRequestSizeInBytes(maxRequestSizeInBytes) ==
  /\ config' = [config EXCEPT !.maxRequestSizeInBytes = maxRequestSizeInBytes]
  /\ UNCHANGED <<calls, objects, uploads, pure>>

\* What the caller hands to the setters: values the configuration may hold
\* and values it may not (an empty or blank string, a size under the minimum).
SetterStrings == {<<"bucket">>, <<"other">>, <<>>, <<" ">>}

SetterSizes == {MIN_MAX_REQUEST_SIZE_IN_BYTES, MIN_MAX_REQUEST_SIZE_IN_BYTES + 1, 1}

SetterProps ==
  {[OtherProps EXCEPT !.accessKeyId = Str(accessKeyId), !.bucketName = Str(bucketName),
                      !.maxRequestSizeInBytes = size] :
     accessKeyId \in {<<"AKIDOTHER">>, <<>>}, bucketName \in {<<"bucket">>, <<>>},
     size \in {Undef, Num(1), Num(0)}}

\* A caller that only configures the client.
NextSet ==
  \/ \E region \in SetterStrings : setRegion(region)
  \/ \E bucketName \in SetterStrings : setBucketName(bucketName)
  \/ \E endpoint \in {<<"https://s3.example">>, <<>>} : setEndpoint(endpoint)
  \/ \E size \in SetterSizes : setMaxRequestSizeInBytes(size)
  \/ \E props \in SetterProps : setProps(props)

SpecSet == Init /\ [][NextSet]_vars

\* C21: accessKeyId, secretAccessKey, endpoint and bucketName are non-empty
\* strings and maxRequestSizeInBytes is at least 5 MiB, after construction and
\* after every setter call.
C21_ConfigInvariant ==
  /\ Trim(config.accessKeyId) # <<>>
  /\ Trim(config.secretAccessKey) # <<>>
  /\ Trim(config.endpoint) # <<>>
  /\ Trim(config.bucketName) # <<>>
  /\ config.maxRequestSizeInBytes >= MIN_MAX_REQUEST_SIZE_IN_BYTES


\* C22: when fetch() rejects, every public operation rejects with the very
\* error fetch() raised: none wraps it or replaces it.
C22_TransportErrorUnmodified ==
  \A c \in CallIds :
    (Done(c) /\ calls[c].out.t = "rejected") =>
      /\ calls[c].result.kind = "throw"
      /\ calls[c].result.err = calls[c].out.err


\* ---------------------------------------------------------------- the logger

\* The keys _log redacts, as the constant spells them.
SENSITIVE_KEYS_REDACTED == {"accessKeyId", "secretAccessKey", "sessionToken", "password"}

\* key.toLowerCase() of the keys of a log entry
LowerCaseKey ==
  [key \in {"bucketName", "region", "endpoint", "accessKeyId", "secretAccessKey",
            "sessionToken", "password"} |->
     CASE key = "bucketName" -> "bucketname"
       [] key = "accessKeyId" -> "accesskeyid"
       [] key = "secretAccessKey" -> "secretaccesskey"
       [] key = "sessionToken" -> "sessiontoken"
       [] OTHER -> key]

\* sanitize: the value of a key whose lower-case form is in
\* SENSITIVE_KEYS_REDACTED is replaced
sanitize(obj) ==
  [key \in DOMAIN obj |->
     IF LowerCaseKey[key] \in SENSITIVE_KEYS_REDACTED THEN <<"[REDACTED]">> ELSE obj[key]]

\* _log with no additional data: the entry handed to logger[level]
_log(level, message, cfg) ==
  [level |-> level, message |-> message,
   context |-> sanitize(
     [bucketName |-> cfg.bucketName, region |-> cfg.region, endpoint |-> cfg.endpoint,
      accessKeyId |-> SubSeq(cfg.accessKeyId, 1,
                             IF Len(cfg.accessKeyId) < 4 THEN Len(cfg.accessKeyId) ELSE 4)
                      \o <<"...">>])]

\* The text of the Authorization header: the access key id and the
\* credential scope in plain, the signature as its hex digits.
AuthorizationText(authorization) ==
  <<"AWS4-HMAC-SHA256 Credential=">> \o authorization.accessKeyId
  \o <<"/", "date", "/">> \o authorization.region
  \o <<"/s3/aws4_request, SignedHeaders=", "signedHeaders", ", Signature=", "hex">>

HeaderText(value) ==
  CASE value.t = "authorization" -> AuthorizationText(value)
    [] value.t \in {"string", "number"} -> ToStr(value)
    [] OTHER -> <<value.t>>

\* JSON.stringify(headers); the model does not keep the order of the keys
RECURSIVE JsonText(_, _)
JsonText(headers, names) ==
  IF names = {} THEN <<>>
  ELSE LET name == CHOOSE n \in names : TRUE
       IN <<"\"", name, "\":\"">> \o HeaderText(headers[name]) \o <<"\"">>
          \o JsonText(headers, names \ {name})

\* url.toString()
UrlText(url) ==
  url.protocol \o <<"//">> \o url.host \o <<"/">> \o url.bucketName \o <<"/">> \o url.pathname

\* `Sending ${method} request to ${url}, headers: ${JSON.stringify(headers)}`
SendingMessage(req) ==
  <<"Sending ", req.method, " request to ">> \o UrlText(req.url) \o <<", headers: {">>
  \o JsonText(req.headers, DOMAIN req.headers) \o <<"}">>

\* The message _handleErrorResponse logs
RequestFailedMessage(e) ==
  <<"ultralight-s3 Module: Request failed with status ">> \o NumToString(e.status)
  \o <<": ">> \o e.code \o <<" - ">> \o e.message \o <<",err body: ">> \o e.body

\* What get, put and fileExists log before they sign: the failed check, or
\* the operation and its key.
LoggedAtInvoke(call, cfg) ==
  IF call.pc = "idle" THEN <<>>
  ELSE IF call.sends = 0 /\ call.pc = "done"
  THEN IF call.result.err.src \in {"key", "data"}
       THEN <<_log("error", <<"ultralight-s3 Module: ", call.result.err.src>>, cfg)>>
       ELSE <<>>
  ELSE CASE call.op = "get" -> <<_log("info", <<"Getting object ">> \o call.args.key.s, cfg)>>
         [] call.op = "put" -> <<_log("info", <<"Uploading object ">> \o call.args.key.s, cfg)>>
         [] OTHER -> <<>>

\* What _sendRequest logs before it calls fetch()
LoggedAtSend(call, cfg) ==
  IF call.sends = 0 THEN <<>> ELSE <<_log("info", SendingMessage(call.req), cfg)>>

\* What is logged once fetch() settled: _handleErrorResponse logs the
\* protocol error, get logs a status it returns null for, and fileExists logs
\* whatever it caught.
LoggedAtSettle(call, cfg) ==
  IF call.pc # "done" \/ call.sends = 0 THEN <<>>
  ELSE (IF call.out.t = "response" /\ ~Ok(call.out.status)
           /\ call.out.status \notin call.req.tolerated
        THEN <<_log("error", RequestFailedMessage(_handleErrorResponse(call.out)), cfg)>>
        ELSE <<>>)
       \o (IF call.op = "get" /\ call.result.kind = "return" /\ call.result.val = Null
           THEN <<_log("error", <<"Failed to get object. Status: ">>
                                 \o NumToString(call.out.status), cfg)>>
           ELSE IF call.op = "fileExists" /\ call.result.kind = "throw"
           THEN <<_log("error", <<"ultralight-s3 Module: Failed to check if file exists: ">>
                                 \o call.result.err.message, cfg)>>
           ELSE <<>>)

\* The entries a call has handed to the logger so far, in their order.
Logged(call, cfg) ==
  LoggedAtInvoke(call, cfg) \o LoggedAtSend(call, cfg) \o LoggedAtSettle(call, cfg)

\* Credentials whose access key ids share their first four characters.
LogAccessKeyIds == {<<"A", "K", "I", "D", "1">>, <<"A", "K", "I", "D", "2", "3">>}

LogSecrets == {<<"s", "1">>, <<"s", "2">>}

InitLog ==
  /\ \E accessKeyId \in LogAccessKeyIds : \E secretAccessKey \in LogSecrets :
       config = [DefaultConfig EXCEPT !.accessKeyId = accessKeyId,
                                      !.secretAccessKey = secretAccessKey]
  /\ calls = [c \in CallIds |-> IdleCall]
  /\ objects = EmptyMap
  /\ uploads = <<>>
  /\ pure = NoEvaluation

LogOps == {"get", "put", "fileExists"}

LogArgChoices(op) ==
  IF op = "put" THEN {[NoArgs EXCEPT !.key = k, !.data = d] : k \in {K, Str(<<>>)},
                                                           d \in {Str(<<"é">>), Num(1)}}
  ELSE {[NoArgs EXCEPT !.key = k] : k \in {K, Str(<<>>)}}

\* A client with a logger: a caller makes one call after the other and the
\* server answers as it likes.
NextLog ==
  \/ \E c \in CallIds : \E op \in LogOps : \E a \in LogArgChoices(op) : StartNext(c, op, a)
  \/ \E c \in CallIds : SignAndSend(c)
  \/ \E c \in CallIds :
       \E res \in {Plain(200, HelloBody), Plain(404, EmptyBody), Plain(403, ErrorBody)} :
         Respond(c, res)
  \/ \E c \in CallIds : \E e \in NetworkErrors : Reject(c, e)

SpecLog == InitLog /\ [][NextLog]_vars

\* text holds s as a run of consecutive characters
Contains(text, s) ==
  \E i \in 1..(Len(text) - Len(s) + 1) : SubSeq(text, i, i + Len(s) - 1) = s

\* every text of a log entry: its message and the fields of its context
EntryTexts(entry) == {entry.message} \cup {entry.context[key] : key \in DOMAIN entry.context}

\* C23: no log entry holds the secretAccessKey or the whole accessKeyId in
\* plain, neither in a field nor in the text of its message.
C23_LogsHoldNoCredentials ==
  \A c \in CallIds :
    \A i \in 1..Len(Logged(calls[c], config)) :
      \A text \in EntryTexts(Logged(calls[c], config)[i]) :
        /\ ~Contains(text, config.secretAccessKey)
        /\ ~Contains(text, config.accessKeyId)


\* C24: in the canonical query string none of the characters ! ' ( ) * is
\* left as it is: each is percent-encoded, in keys and in values.
C24_ReservedAreEncoded ==
  (pure.fn = "_buildCanonicalQueryString" /\ Len(pure.outputs) = 1) =>
    \A i \in 1..Len(pure.outputs[1]) : pure.outputs[1][i] \notin DOMAIN HexOfReserved


\* ------------------------------------------------------- keys and the URL

\* Keys that are paths of their own kind: plain, absolute, with dot segments,
\* and beginning with two or three slashes.
UrlKeys ==
  {K, Str(<<"/", "k">>), Str(<<"a", "/", ".", ".", "/", "b">>), Str(<<".", ".", "/", "k">>),
   Str(<<"/", "/", "evil.example", "/", "x">>), Str(<<"/", "/", "/", "evil.example">>),
   Str(<<>>)}

UrlOps == {"get", "delete"}

UrlArgChoices(op) == {[NoArgs EXCEPT !.key = k] : k \in UrlKeys}

\* A caller that reads and deletes under keys of every kind, one call after
\* the other; the server answers or the connection fails.
NextUrl ==
  \/ \E c \in CallIds : \E op \in UrlOps : \E a \in UrlArgChoices(op) : StartNext(c, op, a)
  \/ \E c \in CallIds : SignAndSend(c)
  \/ \E c \in CallIds : Respond(c, Plain(200, HelloBody))
  \/ \E c \in CallIds : Reject(c, CHOOSE e \in NetworkErrors : e.cls = "TypeError")

SpecUrl == Init /\ [][NextUrl]_vars

\* C25: whatever the key, a signed request goes to the protocol and host of
\* the configured endpoint, and the host header it signs is that host.
C25_RequestsStayOnEndpoint ==
  \A c \in CallIds :
    calls[c].sends > 0 =>
      /\ calls[c].req.url.protocol = ParseEndpoint(config.endpoint).protocol
      /\ calls[c].req.url.host = ParseEndpoint(config.endpoint).host
      /\ calls[c].req.headers["host"] = Str(ParseEndpoint(config.endpoint).host)


\* The canonical query string the signature of a request covers.
SignedQuery(req) == req.headers["Authorization"].signature.stringToSign.request.query

\* C26: the query parameters a request signs are the query parameters of the
\* URL it fetches: the canonical form of the one is that of the other.
C26_SignedQueryIsSentQuery ==
  \A c \in CallIds :
    calls[c].sends > 0 =>
      SignedQuery(calls[c].req) = _buildCanonicalQueryString(calls[c].req.search)


\* C27: fileExists returns false for a response of status 404 and for no
\* other.
C27_FalseOnlyOnNotFound ==
  \A c \in CallIds :
    (Answered(c, "fileExists") /\ calls[c].result = Returned(Bool(FALSE))) =>
      calls[c].out.status = 404


\* The key a child of the evaluated element is stored under.
ChildKey(child) == ToLowerCase(child.p) \o child.r

\* C28: the decoder keeps the nesting: the decoded document holds the parent
\* under its key, and the parent holds every child under the child's key, also
\* a child whose tag name begins with the letter the parent's begins with.
C28_ChildrenAreUnderTheirParent ==
  Applied("_parseXml", 1) =>
    \A i \in 1..Len(pure.input) :
      Prop(Prop(pure.outputs[1], "list"), ChildKey(pure.input[i])) # Undef


\* C30: the Content-Length header of a request that put or uploadPart sends
\* is the number of bytes of the body it transmits, the UTF-8 length of a
\* string.
C30_ContentLengthIsTransmittedBytes ==
  \A c \in CallIds :
    (calls[c].op \in {"put", "uploadPart"} /\ calls[c].sends > 0) =>
      calls[c].req.headers["Content-Length"] = Num(BodyBytes(calls[c].req.body))


\* The entities of XML and the characters they stand for.
XmlEntities ==
  <<[entity |-> QUOT_ENTITY, char |-> QUOT],
    [entity |-> <<"&", "a", "p", "o", "s", ";">>, char |-> <<"'">>],
    [entity |-> <<"&", "l", "t", ";">>, char |-> <<"<">>],
    [entity |-> <<"&", "g", "t", ";">>, char |-> <<">">>],
    [entity |-> <<"&", "a", "m", "p", ";">>, char |-> <<"&">>]>>

\* The inverse of one escaping pass: from left to right, every entity is
\* replaced by its character, and what a replacement produced is not read
\* again.
RECURSIVE UnescapedOnce(_)
UnescapedOnce(s) ==
  IF Len(s) = 0 THEN <<>>
  ELSE IF \E i \in 1..Len(XmlEntities) : StartsWith(s, XmlEntities[i].entity)
  THEN LET i == CHOOSE j \in 1..Len(XmlEntities) : StartsWith(s, XmlEntities[j].entity)
       IN XmlEntities[i].char
            \o UnescapedOnce(SubSeq(s, Len(XmlEntities[i].entity) + 1, Len(s)))
  ELSE <<Head(s)>> \o UnescapedOnce(Tail(s))

\* C29: the text of a leaf element is unescaped exactly once: what the
\* decoder stores for the leaf is its text with every entity replaced a single
\* time (and the quotes of an ETag stripped from its ends).
C29_LeafTextUnescapedOnce ==
  Applied("unescapeXml", 1) =>
    pure.outputs[1] = Obj("key" :> Str(sanitizeETag(UnescapedOnce(pure.input))))

====
